---- MODULE Spec2Model ----
(***************************************************************************)
(* Translation comparator: key-path addressing over nested JSON trees      *)
(* (services/translationService), the application state held by App, and   *)
(* the import pipeline of FileUploader.                                    *)
(*                                                                         *)
(* A string that the program splits, joins or sorts (a property name, a    *)
(* key path, a file name) is a sequence of one-character strings, so that  *)
(* path.split('.') and the default Array.prototype.sort() are computed and *)
(* not assumed.  A JSON value is a tagged record.                          *)
(***************************************************************************)
EXTENDS Integers, Sequences, FiniteSets, TLC

(***************************************************************************)
(* Bounds of the model.                                                    *)
(***************************************************************************)
MaxSets == 2        \* writes applied to one tree in the key-path session
MaxEdits == 2       \* value edits and bulk saves applied to one project

(***************************************************************************)
(* Strings.                                                                *)
(***************************************************************************)
Dot == <<".">>

KA == <<"a">>
KB == <<"b">>
KAB == <<"a", ".", "b">>

\* UTF-16 code units of the characters used, as compared by the default sort
CharCode(c) == CASE c = "." -> 46
                 [] c = "/" -> 47
                 [] c = "_" -> 95
                 [] c = "a" -> 97
                 [] c = "b" -> 98
                 [] c = "c" -> 99
                 [] c = "d" -> 100
                 [] c = "e" -> 101
                 [] c = "g" -> 103
                 [] c = "h" -> 104
                 [] c = "i" -> 105
                 [] c = "j" -> 106
                 [] c = "l" -> 108
                 [] c = "n" -> 110
                 [] c = "o" -> 111
                 [] c = "p" -> 112
                 [] c = "r" -> 114
                 [] c = "s" -> 115
                 [] c = "t" -> 116
                 [] c = "u" -> 117
                 [] c = "x" -> 120
                 [] c = "y" -> 121
                 [] c = "z" -> 122

RECURSIVE StrLessFrom(_, _, _)
StrLessFrom(s, t, i) ==
    IF i > Len(s) THEN i <= Len(t)
    ELSE IF i > Len(t) THEN FALSE
    ELSE IF CharCode(s[i]) < CharCode(t[i]) THEN TRUE
    ELSE IF CharCode(s[i]) > CharCode(t[i]) THEN FALSE
    ELSE StrLessFrom(s, t, i + 1)

\* s < t in plain (code unit) string comparison
StrLess(s, t) == StrLessFrom(s, t, 1)

RECURSIVE SplitFrom(_, _, _)
SplitFrom(s, i, cur) ==
    IF i > Len(s) THEN <<cur>>
    ELSE IF s[i] = "." THEN <<cur>> \o SplitFrom(s, i + 1, <<>>)
    ELSE SplitFrom(s, i + 1, Append(cur, s[i]))

\* path.split('.')
Split(s) == SplitFrom(s, 1, <<>>)

RECURSIVE Join(_)
\* segments.join('.')
Join(segs) ==
    IF Len(segs) = 0 THEN <<>>
    ELSE IF Len(segs) = 1 THEN segs[1]
    ELSE segs[1] \o Dot \o Join(Tail(segs))

Range(s) == {s[i] : i \in 1..Len(s)}

\* s.endsWith(suffix)
EndsWith(s, suffix) ==
    /\ Len(s) >= Len(suffix)
    /\ SubSeq(s, Len(s) - Len(suffix) + 1, Len(s)) = suffix

\* s.replace(pat, rep): the first occurrence only
ReplaceFirst(s, pat, rep) ==
    LET hits == {i \in 1..(Len(s) - Len(pat) + 1) : SubSeq(s, i, i + Len(pat) - 1) = pat}
    IN  IF hits = {} THEN s
        ELSE LET i == CHOOSE h \in hits : \A g \in hits : h <= g
             IN  SubSeq(s, 1, i - 1) \o rep \o SubSeq(s, i + Len(pat), Len(s))

\* name.split('/').pop() || name
Basename(name) ==
    LET slashes == {i \in 1..Len(name) : name[i] = "/"}
        last == IF slashes = {} THEN 0 ELSE CHOOSE h \in slashes : \A g \in slashes : g <= h
        tail == SubSeq(name, last + 1, Len(name))
    IN  IF tail = <<>> THEN name ELSE tail

(***************************************************************************)
(* JSON values.                                                            *)
(***************************************************************************)
Undefined == [t |-> "undefined"]
Null == [t |-> "null"]
Str(s) == [t |-> "string", s |-> s]
Arr(e) == [t |-> "array", e |-> e]
Obj(m) == [t |-> "object", m |-> m]
\* a number: a finite one, or Infinity
Num(n) == [t |-> "number", n |-> n, finite |-> TRUE]
Infinity == [t |-> "number", n |-> 0, finite |-> FALSE]

EmptyMap == [k \in {} |-> Undefined]
EmptyObj == Obj(EmptyMap)

IsMapping(v) == v.t = "object"

Put(m, k, v) == [x \in (DOMAIN m) \cup {k} |-> IF x = k THEN v ELSE m[x]]

Obj1(k, v) == Obj(Put(EmptyMap, k, v))
Obj2(k1, v1, k2, v2) == Obj(Put(Put(EmptyMap, k1, v1), k2, v2))

\* JSON.parse(JSON.stringify(v)) of a value: a property that holds undefined
\* is left out, an element that is undefined is written as null, and so is
\* a number that is not finite
RECURSIVE JsonRoundTrip(_)
JsonRoundTrip(v) ==
    IF v.t = "object"
    THEN Obj([k \in {x \in DOMAIN v.m : v.m[x] # Undefined} |-> JsonRoundTrip(v.m[k])])
    ELSE IF v.t = "array"
    THEN Arr([i \in 1..Len(v.e) |->
                 IF v.e[i] = Undefined THEN Null ELSE JsonRoundTrip(v.e[i])])
    ELSE IF v.t = "number" /\ ~v.finite
    THEN Null
    ELSE v

(***************************************************************************)
(* Key-path addressing.                                                    *)
(***************************************************************************)
RECURSIVE GetWalk(_, _, _)
GetWalk(cur, keys, i) ==
    IF i > Len(keys) THEN cur
    ELSE IF IsMapping(cur) /\ keys[i] \in DOMAIN cur.m
         THEN GetWalk(cur.m[keys[i]], keys, i + 1)
         ELSE Undefined

\* a lookup that takes the whole path for one property name
getValueByPathWholeName(obj, path) ==
    IF IsMapping(obj) /\ path \in DOMAIN obj.m THEN obj.m[path] ELSE Undefined

getValueByPath(obj, path) == GetWalk(obj, Split(path), 1)

RECURSIVE SetWalk(_, _, _, _)
SetWalk(cur, keys, i, value) ==
    LET base == IF IsMapping(cur) THEN cur.m ELSE EmptyMap
        k == keys[i]
        child == IF k \in DOMAIN base THEN base[k] ELSE Undefined
    IN  IF i = Len(keys)
        THEN Obj(Put(base, k, value))
        ELSE Obj(Put(base, k, SetWalk(child, keys, i + 1, value)))

RECURSIVE Nest(_, _, _)
\* value under a chain of new mappings for keys[i..]
Nest(keys, i, value) ==
    IF i > Len(keys) THEN value ELSE Obj(Put(EmptyMap, keys[i], Nest(keys, i + 1, value)))

\* a set that builds the chain below the root anew, without the siblings
setValueByPathFresh(obj, path, value) ==
    LET keys == Split(path)
    IN  Obj(Put(IF IsMapping(obj) THEN obj.m ELSE EmptyMap, keys[1], Nest(keys, 2, value)))

\* a set that writes only where the parent mapping already exists
setValueByPathNoCreate(obj, path, value) ==
    LET keys == Split(path)
    IN  IF IsMapping(GetWalk(obj, SubSeq(keys, 1, Len(keys) - 1), 1))
        THEN SetWalk(obj, keys, 1, value)
        ELSE obj

RECURSIVE MergeWalk(_, _, _, _)
MergeWalk(cur, keys, i, value) ==
    LET base == IF IsMapping(cur) THEN cur.m ELSE EmptyMap
        k == keys[i]
        child == IF k \in DOMAIN base THEN base[k] ELSE Undefined
        merged == IF IsMapping(child) /\ IsMapping(value)
                  THEN Obj([x \in DOMAIN child.m \cup DOMAIN value.m |->
                               IF x \in DOMAIN value.m THEN value.m[x] ELSE child.m[x]])
                  ELSE value
    IN  IF i = Len(keys)
        THEN Obj(Put(base, k, merged))
        ELSE Obj(Put(base, k, MergeWalk(child, keys, i + 1, value)))

\* a set that merges a mapping it writes into the mapping it finds
setValueByPathMerge(obj, path, value) == MergeWalk(obj, Split(path), 1, value)

setValueByPath(obj, path, value) == SetWalk(obj, Split(path), 1, value)

RECURSIVE FlattenFrom(_, _, _)
FlattenFrom(m, prefix, todo) ==
    IF todo = {} THEN <<>>
    ELSE LET k == CHOOSE x \in todo : TRUE
             child == m[k]
             path == IF prefix = <<>> THEN k ELSE prefix \o Dot \o k
             here == IF IsMapping(child)
                     THEN FlattenFrom(child.m, path, DOMAIN child.m)
                     ELSE IF child = Arr(<<>>) THEN <<>> ELSE <<path>>
         IN  here \o FlattenFrom(m, prefix, todo \ {k})

RECURSIVE FlattenAllFrom(_, _, _)
FlattenAllFrom(m, prefix, todo) ==
    IF todo = {} THEN <<>>
    ELSE LET k == CHOOSE x \in todo : TRUE
             child == m[k]
             path == IF prefix = <<>> THEN k ELSE prefix \o Dot \o k
             here == IF IsMapping(child)
                     THEN <<path>> \o FlattenAllFrom(child.m, path, DOMAIN child.m)
                     ELSE IF child = Arr(<<>>) THEN <<>> ELSE <<path>>
         IN  here \o FlattenAllFrom(m, prefix, todo \ {k})

\* the name of element i of an array, were it a property: "0", "1", ...
Digits == <<"0", "1", "2", "3", "4", "5", "6", "7", "8", "9">>
IndexName(i) == <<Digits[i]>>

\* a flattening that goes into an array and lists a path for every element
RECURSIVE FlattenPerIndexFrom(_, _, _)
FlattenPerIndexFrom(m, prefix, todo) ==
    IF todo = {} THEN <<>>
    ELSE LET k == CHOOSE x \in todo : TRUE
             child == m[k]
             path == IF prefix = <<>> THEN k ELSE prefix \o Dot \o k
             here == IF IsMapping(child)
                     THEN FlattenPerIndexFrom(child.m, path, DOMAIN child.m)
                     ELSE IF child.t = "array"
                     THEN [i \in 1..Len(child.e) |-> path \o Dot \o IndexName(i)]
                     ELSE <<path>>
         IN  here \o FlattenPerIndexFrom(m, prefix, todo \ {k})

flattenObjectKeysPerIndex(obj) ==
    IF IsMapping(obj) THEN FlattenPerIndexFrom(obj.m, <<>>, DOMAIN obj.m) ELSE <<>>

\* a flattening that lists the paths of the mappings too
flattenObjectKeysAllNodes(obj) ==
    IF IsMapping(obj) THEN FlattenAllFrom(obj.m, <<>>, DOMAIN obj.m) ELSE <<>>

flattenObjectKeys(obj) ==
    IF IsMapping(obj) THEN FlattenFrom(obj.m, <<>>, DOMAIN obj.m) ELSE <<>>

(***************************************************************************)
(* Key-path writing at the level of object references.  The heap is the    *)
(* sequence of the mapping nodes allocated so far, an address is an index  *)
(* in it, and a property of a node holds a leaf value or the address of a  *)
(* node.  A holder of a tree holds the address of its root.                *)
(***************************************************************************)
Ref(a) == [t |-> "ref", a |-> a]

RECURSIVE Read(_, _)
\* the JSON value that a cell of the heap stands for
Read(heap, cell) ==
    IF cell.t = "ref"
    THEN Obj([k \in DOMAIN heap[cell.a] |-> Read(heap, heap[cell.a][k])])
    ELSE cell

RECURSIVE SetRefWalk(_, _, _, _, _)
\* copies the node on the path (a fresh empty mapping where there is none),
\* shares every branch beside it; returns the heap and the cell of the copy
SetRefWalk(heap, cur, keys, i, value) ==
    LET base == IF cur.t = "ref" THEN heap[cur.a] ELSE EmptyMap
        k == keys[i]
        child == IF k \in DOMAIN base THEN base[k] ELSE Undefined
    IN  IF i = Len(keys)
        THEN [heap |-> Append(heap, Put(base, k, value)), cell |-> Ref(Len(heap) + 1)]
        ELSE LET below == SetRefWalk(heap, child, keys, i + 1, value)
             IN  [heap |-> Append(below.heap, Put(base, k, below.cell)),
                  cell |-> Ref(Len(below.heap) + 1)]

RECURSIVE MutateWalk(_, _, _, _, _)
\* writes through the nodes that exist, in place
MutateWalk(heap, a, keys, i, value) ==
    LET k == keys[i]
        node == heap[a]
    IN  IF i = Len(keys)
        THEN [heap EXCEPT ![a] = Put(node, k, value)]
        ELSE IF k \in DOMAIN node /\ node[k].t = "ref"
             THEN MutateWalk(heap, node[k].a, keys, i + 1, value)
             ELSE LET grown == Append(heap, EmptyMap)
                      linked == [grown EXCEPT ![a] = Put(node, k, Ref(Len(grown)))]
                  IN  MutateWalk(linked, Len(grown), keys, i + 1, value)

\* a set that copies the root alone and writes the nested nodes in place
setValueByPathRootCopy(heap, root, path, value) ==
    LET copied == Append(heap, IF root.t = "ref" THEN heap[root.a] ELSE EmptyMap)
    IN  [heap |-> MutateWalk(copied, Len(copied), Split(path), 1, value),
         cell |-> Ref(Len(copied))]

\* setValueByPath on references: [heap, cell], cell being the new root
setValueByPathRef(heap, root, path, value) ==
    SetRefWalk(heap, root, Split(path), 1, value)

\* { ...data }: a new node with the properties of the root
ShallowCopy(heap, root) ==
    [heap |-> Append(heap, IF root.t = "ref" THEN heap[root.a] ELSE EmptyMap),
     cell |-> Ref(Len(heap) + 1)]

RECURSIVE BulkKeysRef(_, _, _)
\* the loop of handleSaveBulkTranslations over the keys of one language
BulkKeysRef(heap, root, entries) ==
    IF entries = <<>> THEN [heap |-> heap, cell |-> root]
    ELSE LET r == setValueByPathRef(heap, root, Head(entries).key, Head(entries).value)
         IN  BulkKeysRef(r.heap, r.cell, Tail(entries))

(***************************************************************************)
(* Key discovery in App: handleFilesUpload and handleContinueSession fill  *)
(* a Set file by file and sort Array.from(set).                            *)
(***************************************************************************)
RECURSIVE AddAll(_, _)
\* keys.forEach(key => allKeysSet.add(key)): a Set keeps first-insertion order
AddAll(set, keys) ==
    IF keys = <<>> THEN set
    ELSE AddAll(IF Head(keys) \in Range(set) THEN set ELSE Append(set, Head(keys)),
                Tail(keys))

\* a collection that takes the keys of the first file alone
CollectKeysFirstFile(files, set) ==
    IF files = <<>> THEN set ELSE AddAll(set, flattenObjectKeys(Head(files).data))

RECURSIVE CollectKeys(_, _)
CollectKeys(files, set) ==
    IF files = <<>> THEN set
    ELSE CollectKeys(Tail(files), AddAll(set, flattenObjectKeys(Head(files).data)))

RECURSIVE InsertSorted(_, _)
InsertSorted(sorted, x) ==
    IF sorted = <<>> THEN <<x>>
    ELSE IF StrLess(x, Head(sorted)) THEN <<x>> \o sorted
    ELSE <<Head(sorted)>> \o InsertSorted(Tail(sorted), x)

RECURSIVE SortFrom(_, _)
SortFrom(arr, sorted) ==
    IF arr = <<>> THEN sorted ELSE SortFrom(Tail(arr), InsertSorted(sorted, Head(arr)))

\* Array.prototype.sort() without a comparator: ascending by code units
SortStrings(arr) == SortFrom(arr, <<>>)

\* Array.from(allKeysSet), left in insertion order
UnionKeysUnsorted(files) == CollectKeys(files, <<>>)

\* Array.from(allKeysSet).sort()
UnionKeys(files) == SortStrings(CollectKeys(files, <<>>))

(***************************************************************************)
(* FileUploader.processFiles.                                              *)
(***************************************************************************)
\* String.prototype.toLowerCase on the letters that occur in file names
ToLowerChar(c) ==
    CASE c = "P" -> "p" [] c = "L" -> "l" [] c = "E" -> "e" [] c = "N" -> "n"
      [] c = "D" -> "d" [] OTHER -> c

toLowerCase(s) == [i \in 1..Len(s) |-> ToLowerChar(s[i])]

\* String.prototype.includes
Includes(s, pat) ==
    \E i \in 0..(Len(s) - Len(pat)) : SubSeq(s, i + 1, i + Len(pat)) = pat

JsonExt == <<".", "j", "s", "o", "n">>
ZipExt == <<".", "z", "i", "p">>
N_pl == <<"p", "l">>
N_en == <<"e", "n">>
N_de == <<"d", "e">>
N_context == <<"c", "o", "n", "t", "e", "x", "t">>
N_history == <<"h", "i", "s", "t", "o", "r", "y">>
N_groups == <<"g", "r", "o", "u", "p", "s">>
N_global_context_txt ==
    <<"g", "l", "o", "b", "a", "l", "_", "c", "o", "n", "t", "e", "x", "t", ".", "t", "x", "t">>
N_reference_keys == <<"r", "e", "f", "e", "r", "e", "n", "c", "e", "_", "k", "e", "y", "s">>
Dir_x == <<"x", "/">>

\* the text of a file: what JSON.parse(text) returns (json, one element) or
\* that it throws (json empty), and the raw text
ValidText(v) == [raw |-> "json", json |-> <<v>>]
InvalidText == [raw |-> "garbage", json |-> <<>>]

NoError == [kind |-> "none"]
ZipError == [kind |-> "zip"]
ParseError(name) == [kind |-> "parse", file |-> name]
NoTranslationFileError == [kind |-> "noTranslationFile"]

defaultResult ==
    [translationFiles |-> <<>>, contexts |-> EmptyObj, history |-> EmptyMap,
     groups |-> <<>>, globalContext |-> ""]

\* one turn of the loop over filesToProcess; acc.error is set when the catch
\* block ends the import
ProcessOne(acc, file) ==
    LET bad == file.text.json = <<>>
        parsed == file.text.json[1]
        failed == [acc EXCEPT !.error = ParseError(file.name)]
    IN  IF file.name = N_context \o JsonExt
        THEN IF bad THEN failed ELSE [acc EXCEPT !.contexts = parsed]
        ELSE IF file.name = N_history \o JsonExt
        THEN IF bad THEN failed ELSE [acc EXCEPT !.history = parsed]
        ELSE IF file.name = N_groups \o JsonExt
        THEN IF bad THEN failed ELSE [acc EXCEPT !.groups = parsed]
        ELSE IF file.name = N_global_context_txt
        THEN [acc EXCEPT !.globalContext = file.text.raw]
        ELSE IF file.name = N_reference_keys \o JsonExt
        THEN IF bad THEN failed ELSE acc
        ELSE IF EndsWith(file.name, JsonExt)
        THEN IF bad THEN failed
             ELSE [acc EXCEPT !.translationFiles =
                       Append(@, [name |-> ReplaceFirst(file.name, JsonExt, <<>>),
                                  data |-> parsed])]
        ELSE acc

RECURSIVE ProcessLoop(_, _)
ProcessLoop(acc, files) ==
    IF files = <<>> \/ acc.error # NoError THEN acc
    ELSE ProcessLoop(ProcessOne(acc, Head(files)), Tail(files))

\* the files of the batch: the entries of a ZIP under their base names, or
\* the loose files
FilesToProcess(batch) ==
    IF batch.zip
    THEN [i \in 1..Len(batch.files) |->
              [name |-> Basename(batch.files[i].name), text |-> batch.files[i].text]]
    ELSE batch.files

\* an import that hands over whatever it found, translation file or not
processFilesNoAbort(batch) ==
    IF batch.zip /\ ~batch.zipOk
    THEN [error |-> ZipError, result |-> defaultResult]
    ELSE LET acc == ProcessLoop([defaultResult EXCEPT !.globalContext = ""] @@
                                    [error |-> NoError],
                                FilesToProcess(batch))
         IN  IF acc.error # NoError
             THEN [error |-> acc.error, result |-> defaultResult]
             ELSE [error |-> NoError, result |-> [f \in DOMAIN defaultResult |-> acc[f]]]

\* processFiles: [error, result], result being what onFilesUploaded receives
processFiles(batch) ==
    IF batch.zip /\ ~batch.zipOk
    THEN [error |-> ZipError, result |-> defaultResult]
    ELSE LET acc == ProcessLoop([defaultResult EXCEPT !.globalContext = ""] @@
                                    [error |-> NoError],
                                FilesToProcess(batch))
             found == [f \in DOMAIN defaultResult |-> acc[f]]
         IN  IF acc.error # NoError
             THEN [error |-> acc.error, result |-> defaultResult]
             ELSE IF Len(acc.translationFiles) = 0
             THEN [error |-> NoTranslationFileError, result |-> defaultResult]
             ELSE [error |-> NoError, result |-> found]

(***************************************************************************)
(* State.                                                                  *)
(***************************************************************************)
VARIABLES
    \* App
    projectData,       \* Null, or the project record
    allKeys,           \* string[]
    selectedKey,       \* string | null
    activeView,        \* 'keys' | 'groups' | 'bulk'
    selectedGroupId,   \* string | null
    groupMode,         \* 'list' | 'create' | 'edit'
    \* FileUploader
    uploadError,       \* the error message shown by the uploader
    \* the last upload, edit or save, the project it was applied to, and the
    \* number of edits and saves so far
    lastOp, prevProject, edits,
    \* the item 'translationAppState' of localStorage, and what the mount
    \* effect read from it
    storage, initialDataFromStorage

appVars == <<projectData, allKeys, selectedKey, activeView, selectedGroupId,
             groupMode, uploadError, lastOp, prevProject, edits,
             storage, initialDataFromStorage>>

(***************************************************************************)
(* State of the key-path session: one tree, a sequence of writes.          *)
(***************************************************************************)
VARIABLES kpTree, kpOther, kpPrev, kpPath, kpValue, kpOp, kpSteps

kpVars == <<kpTree, kpOther, kpPrev, kpPath, kpValue, kpOp, kpSteps>>

(***************************************************************************)
(* State of the reference session: a heap, the root of the current tree,   *)
(* and the roots that earlier holders still hold.                          *)
(***************************************************************************)
VARIABLES refHeap, refRoot, refHeld, refPrevHeap, refOp, refSteps

refVars == <<refHeap, refRoot, refHeld, refPrevHeap, refOp, refSteps>>

(***************************************************************************)
(* State of one view's dealings with the LLM service: the handler that the *)
(* last click started, the requests of that click (what each asks for,     *)
(* whether it is pending or how it settled, how often it was issued), the  *)
(* suggestions gathered so far by bulkTranslateKeys, and the state of the  *)
(* component (isLoading, error, result), with the progress and the         *)
(* selected language of the bulk view.                                     *)
(***************************************************************************)
VARIABLES llmHandler, llmPhase, llmTasks, llmStatus, llmIssued, llmAll, llmComp, llmClicks,
          llmProgress, selectedLang

llmVars == <<llmHandler, llmPhase, llmTasks, llmStatus, llmIssued, llmAll, llmComp, llmClicks,
             llmProgress, selectedLang>>

(***************************************************************************)
(* State of GroupEditorForm while it is mounted (groupMode is 'create' or  *)
(* 'edit'), and the id of the group whose data its useState took when it   *)
(* mounted, with the number of clicks made in forms so far.                *)
(***************************************************************************)
VARIABLES formState, formLoaded, formClicks

groupVars == <<formState, formLoaded, formClicks>>
vars == <<appVars, kpVars, refVars, llmVars, groupVars>>

(***************************************************************************)
(* App.                                                                    *)
(***************************************************************************)
NoProject == [t |-> "noProject"]
NullKey == <<"null">>
NullId == "null"

\* localStorage.getItem of a key that holds nothing
NoItem == [t |-> "noItem"]

\* JSON.stringify(projectData): the text, held as the value it parses to
JSONstringify(project) ==
    [t |-> "item",
     text |->
        [translationFiles |->
             [i \in 1..Len(project.translationFiles) |->
                 [name |-> project.translationFiles[i].name,
                  data |-> JsonRoundTrip(project.translationFiles[i].data)]],
         contexts |-> JsonRoundTrip(project.contexts),
         translationHistory |->
             [k \in DOMAIN project.translationHistory |->
                 [f \in {x \in DOMAIN project.translationHistory[k] :
                            project.translationHistory[k][x] # Undefined} |->
                     JsonRoundTrip(project.translationHistory[k][f])]],
         translationGroups |-> project.translationGroups,
         globalContext |-> project.globalContext]]

JSONparse(item) == item.text

\* the effect on [projectData]: the item after a render with this project
SavedItem(project, item) ==
    IF project # NoProject THEN JSONstringify(project) ELSE item

\* handleFilesUpload: [projectData, selectedGroupId, groupMode, allKeys,
\* selectedKey, activeView] after the upload result arrived
handleFilesUpload(uploadResult, view) ==
    LET uploadedFiles == uploadResult.translationFiles
        sortedKeys == UnionKeys(uploadedFiles)
    IN  [projectData |->
             [translationFiles |-> uploadResult.translationFiles,
              contexts |-> uploadResult.contexts,
              translationHistory |-> uploadResult.history,
              translationGroups |-> uploadResult.groups,
              globalContext |-> uploadResult.globalContext],
         selectedGroupId |->
             IF Len(uploadResult.groups) > 0 THEN uploadResult.groups[1].id ELSE NullId,
         groupMode |-> "list",
         allKeys |-> IF Len(uploadedFiles) > 0 THEN sortedKeys ELSE <<>>,
         selectedKey |->
             IF Len(uploadedFiles) > 0 /\ Len(sortedKeys) > 0 THEN sortedKeys[1] ELSE NullKey,
         activeView |-> IF Len(uploadedFiles) > 0 THEN "keys" ELSE view]

\* { ...prev[key], [fileName]: newValue } merged into the history
HistoryWith(history, key, fileName, newValue) ==
    LET old == IF key \in DOMAIN history THEN history[key] ELSE EmptyMap
    IN  Put(history, key, Put(old, fileName, newValue))

\* an update that writes the value into every file
handleUpdateValueEveryFile(prev, fileName, key, newValue) ==
    LET newFiles == [i \in 1..Len(prev.translationFiles) |->
                        [prev.translationFiles[i] EXCEPT
                             !.data = setValueByPath(@, key, newValue)]]
    IN  [prev EXCEPT !.translationFiles = newFiles,
                     !.translationHistory = HistoryWith(@, key, fileName, newValue)]

\* handleUpdateValueAndHistory: the project after updateProjectData
handleUpdateValueAndHistory(prev, fileName, key, newValue) ==
    LET newFiles == [i \in 1..Len(prev.translationFiles) |->
                        LET file == prev.translationFiles[i]
                        IN  IF file.name = fileName
                            THEN [file EXCEPT !.data = setValueByPath(file.data, key, newValue)]
                            ELSE file]
    IN  [prev EXCEPT !.translationFiles = newFiles,
                     !.translationHistory = HistoryWith(@, key, fileName, newValue)]

\* new Map(files.map(f => [f.name, {...f.data}])): the last file of a name wins
LangFileMap(files) ==
    [n \in {files[i].name : i \in 1..Len(files)} |->
        LET last == CHOOSE i \in 1..Len(files) :
                        /\ files[i].name = n
                        /\ \A j \in 1..Len(files) : files[j].name = n => j <= i
        IN  files[last].data]

RECURSIVE BulkKeys(_, _, _)
\* for (const key in updatedValues): st = [data, history]
BulkKeys(st, lang, entries) ==
    IF entries = <<>> THEN st
    ELSE LET e == Head(entries)
         IN  BulkKeys([data |-> setValueByPath(st.data, e.key, e.value),
                       history |-> HistoryWith(st.history, e.key, lang, e.value)],
                      lang, Tail(entries))

RECURSIVE BulkLangs(_, _)
\* for (const lang in updatedValuesByLang): st = [map, history]
BulkLangs(st, updated) ==
    IF updated = <<>> THEN st
    ELSE LET u == Head(updated)
         IN  IF u.lang \in DOMAIN st.map
             THEN LET r == BulkKeys([data |-> st.map[u.lang], history |-> st.history],
                                    u.lang, u.values)
                  IN  BulkLangs([map |-> [st.map EXCEPT ![u.lang] = r.data],
                                 history |-> r.history], Tail(updated))
             ELSE BulkLangs(st, Tail(updated))

\* a bulk save that writes the files and leaves the history as it was
handleSaveBulkTranslationsDataOnly(prev, updatedValuesByLang) ==
    LET done == BulkLangs([map |-> LangFileMap(prev.translationFiles),
                           history |-> prev.translationHistory], updatedValuesByLang)
        newFiles == [i \in 1..Len(prev.translationFiles) |->
                        LET file == prev.translationFiles[i]
                        IN  IF file.name \in DOMAIN done.map
                            THEN [file EXCEPT !.data = done.map[file.name]]
                            ELSE file]
    IN  [prev EXCEPT !.translationFiles = newFiles]

\* handleSaveBulkTranslations: the project after updateProjectData
handleSaveBulkTranslations(prev, updatedValuesByLang) ==
    LET done == BulkLangs([map |-> LangFileMap(prev.translationFiles),
                           history |-> prev.translationHistory], updatedValuesByLang)
        newFiles == [i \in 1..Len(prev.translationFiles) |->
                        LET file == prev.translationFiles[i]
                        IN  IF file.name \in DOMAIN done.map
                            THEN [file EXCEPT !.data = done.map[file.name]]
                            ELSE file]
    IN  [prev EXCEPT !.translationFiles = newFiles, !.translationHistory = done.history]

(***************************************************************************)
(* The batches a user imports.                                             *)
(***************************************************************************)
T_pl == Obj1(KA, Obj1(KB, Str("x")))
T_en == Obj2(KA, Str("x"), KB, Arr(<<Str("x")>>))
T_de == Obj2(KAB, Str("y"), KB, Arr(<<>>))
T_en2 == Obj2(KB, Str("y"), KA, Obj1(KA, EmptyObj))

F_pl == [name |-> N_pl \o JsonExt, text |-> ValidText(T_pl)]
F_en == [name |-> N_en \o JsonExt, text |-> ValidText(T_en)]
F_de == [name |-> N_de \o JsonExt, text |-> ValidText(T_de)]
F_x_en == [name |-> Dir_x \o N_en \o JsonExt, text |-> ValidText(T_en2)]
F_en_count == [name |-> N_en \o JsonExt,
               text |-> ValidText(Obj2(KA, Str("x"), KB, Num(1)))]
F_en_bad == [name |-> N_en \o JsonExt, text |-> InvalidText]
F_context == [name |-> N_context \o JsonExt, text |-> ValidText(Obj1(KAB, Str("ctx")))]
F_context_bad == [name |-> N_context \o JsonExt, text |-> InvalidText]
F_history == [name |-> N_history \o JsonExt,
              text |-> ValidText(Put(EmptyMap, KB, Put(EmptyMap, N_en, Str("old"))))]
F_groups == [name |-> N_groups \o JsonExt,
             text |-> ValidText(<<[id |-> "g1", name |-> "G", context |-> "",
                                  keys |-> <<KA, KAB, KB>>, referenceKeys |-> <<>>]>>)]
F_global == [name |-> N_global_context_txt, text |-> [raw |-> "about", json |-> <<>>]]

Loose(files) == [zip |-> FALSE, zipOk |-> TRUE, files |-> files]
Zip(files) == [zip |-> TRUE, zipOk |-> TRUE, files |-> files]
BrokenZip == [zip |-> TRUE, zipOk |-> FALSE, files |-> <<>>]

Batches ==
    {Loose(<<F_pl>>), Loose(<<F_pl, F_en>>), Loose(<<F_en, F_pl>>),
     Loose(<<F_de, F_pl>>), Loose(<<F_en, F_de>>),
     Loose(<<F_pl, F_en, F_context, F_history, F_groups, F_global>>),
     Loose(<<F_pl, F_context_bad>>), Loose(<<F_context_bad, F_en>>),
     Loose(<<F_pl, F_en_bad>>), Loose(<<F_context, F_global>>), Loose(<<F_en_bad>>),
     Zip(<<F_en, F_x_en, F_pl>>), BrokenZip}

(***************************************************************************)
(* Actions of the application.                                             *)
(***************************************************************************)
\* no GroupEditorForm is mounted
NoForm == [t |-> "noForm"]

InitApp ==
    /\ formState = NoForm
    /\ formLoaded = NullId
    /\ formClicks = 0
    /\ projectData = NoProject
    /\ allKeys = <<>>
    /\ selectedKey = NullKey
    /\ activeView = "keys"
    /\ selectedGroupId = NullId
    /\ groupMode = "list"
    /\ uploadError = NoError
    /\ lastOp = [op |-> "init"]
    /\ prevProject = NoProject
    /\ edits = 0
    /\ storage = NoItem
    /\ initialDataFromStorage = NoProject

\* the save effect after a handler that set projectData, in a session that
\* keeps what it read from the storage when it mounted
SaveEffect ==
    /\ storage' = SavedItem(projectData', storage)
    /\ initialDataFromStorage' = initialDataFromStorage

\* FileUploader.processFiles, then App.handleFilesUpload with its result; the
\* uploader is rendered while no project is loaded
Upload(batch) ==
    /\ projectData = NoProject
    /\ initialDataFromStorage = NoProject
    /\ LET done == processFiles(batch)
           next == handleFilesUpload(done.result, activeView)
       IN  /\ uploadError' = done.error
           /\ projectData' = next.projectData
           /\ selectedGroupId' = next.selectedGroupId
           /\ groupMode' = next.groupMode
           /\ allKeys' = next.allKeys
           /\ selectedKey' = next.selectedKey
           /\ activeView' = next.activeView
    /\ lastOp' = [op |-> "upload", batch |-> batch]
    /\ prevProject' = projectData
    /\ SaveEffect
    /\ UNCHANGED <<edits, kpVars, refVars, llmVars, groupVars>>

\* TranslationKeyList: onSelectKey = setSelectedKey
SelectKey(key) ==
    /\ projectData # NoProject
    /\ activeView = "keys"
    /\ key \in Range(allKeys)
    /\ key # selectedKey
    /\ selectedKey' = key
    /\ UNCHANGED <<projectData, allKeys, activeView, selectedGroupId, groupMode,
                   uploadError, lastOp, prevProject, edits, storage,
                   initialDataFromStorage, kpVars, refVars, llmVars, groupVars>>

\* no effect on the selected group
selectedGroupIdEffectNone(groups, id, mode) ==
    id

\* the effect on [translationGroups, selectedGroupId, groupMode]
selectedGroupIdEffect(groups, id, mode) ==
    IF mode # "list" THEN id
    ELSE IF Len(groups) = 0 THEN NullId
    ELSE IF \A i \in 1..Len(groups) : groups[i].id # id THEN groups[1].id
    ELSE id

\* the view buttons of the sidebar, and the effects on activeView and on
\* groupMode
SetActiveView(view) ==
    /\ projectData # NoProject
    /\ view # activeView
    /\ activeView' = view
    /\ groupMode' = IF view # "groups" THEN "list" ELSE groupMode
    /\ selectedGroupId' = selectedGroupIdEffect(projectData.translationGroups,
                                                selectedGroupId, groupMode')
    /\ formState' = IF groupMode' = "list" THEN NoForm ELSE formState
    /\ formLoaded' = IF groupMode' = "list" THEN NullId ELSE formLoaded
    /\ formClicks' = formClicks
    /\ UNCHANGED <<projectData, allKeys, selectedKey,
                   uploadError, lastOp, prevProject, edits, storage,
                   initialDataFromStorage, kpVars, refVars, llmVars>>

UpdateValue(op, fileName, key, newValue) ==
    /\ edits < MaxEdits
    /\ edits' = edits + 1
    /\ prevProject' = projectData
    /\ projectData' = handleUpdateValueAndHistory(projectData, fileName, key, newValue)
    /\ lastOp' = [op |-> op, fileName |-> fileName, key |-> key, value |-> newValue]
    /\ SaveEffect
    /\ UNCHANGED <<allKeys, selectedKey, activeView, selectedGroupId, groupMode,
                   uploadError, kpVars, refVars, llmVars, groupVars>>

FileNames == {projectData.translationFiles[i].name :
                 i \in 1..Len(projectData.translationFiles)}

\* TranslationAnalysisCard.handleApplySuggestion on the card of selectedKey
ApplySuggestion(fileName, suggestion) ==
    /\ projectData # NoProject
    /\ activeView = "keys"
    /\ selectedKey # NullKey
    /\ fileName \in FileNames
    /\ UpdateValue("applySuggestion", fileName, selectedKey, Str(suggestion))

\* what ValueDisplay.handleSaveClick hands to onSave for the text typed over
\* a value: parsed JSON over an object or array, the text itself otherwise
\* (the boolean branch is not modelled: no such value is loaded). Over a
\* number it is parseFloat of the text, unless that is NaN: a finite number,
\* or Infinity for the text "Infinity"
SavedValues(value) ==
    IF value.t \in {"object", "array"}
    THEN {Arr(<<>>), EmptyObj, Obj1(KB, Str("z")), Str("z")}
    ELSE IF value.t = "number"
    THEN {Num(2), Infinity}
    ELSE {Str("z")}

\* ValueDisplay.handleSaveClick in the row of file i of the card of selectedKey
ValueDisplaySave(i, newValue) ==
    /\ projectData # NoProject
    /\ activeView = "keys"
    /\ selectedKey # NullKey
    /\ i \in 1..Len(projectData.translationFiles)
    /\ LET file == projectData.translationFiles[i]
           value == getValueByPath(file.data, selectedKey)
       IN  /\ value # Undefined
           /\ newValue \in SavedValues(value)
           /\ UpdateValue("valueDisplaySave", file.name, selectedKey, newValue)

\* the edits of the bulk table for one language: one or two keys of the key
\* list, in the order they were typed
BulkEdits ==
    {<<[key |-> k, value |-> Str("y")]>> : k \in Range(allKeys)} \cup
    {<<[key |-> pair[1], value |-> Str("y")], [key |-> pair[2], value |-> Str("z")]>> :
        pair \in {q \in Range(allKeys) \X Range(allKeys) : q[1] # q[2]}}

\* BulkTranslateView.handleSave -> App.handleSaveBulkTranslations
SaveBulk(lang, entries) ==
    /\ projectData # NoProject
    /\ activeView = "bulk"
    /\ edits < MaxEdits
    /\ lang \in FileNames
    /\ entries \in BulkEdits
    /\ edits' = edits + 1
    /\ prevProject' = projectData
    /\ projectData' = handleSaveBulkTranslations(projectData,
                          <<[lang |-> lang, values |-> entries]>>)
    /\ lastOp' = [op |-> "saveBulk", lang |-> lang, entries |-> entries]
    /\ SaveEffect
    /\ UNCHANGED <<allKeys, selectedKey, activeView, selectedGroupId, groupMode,
                   uploadError, kpVars, refVars, llmVars, groupVars>>

Views == {"keys", "groups", "bulk"}

Next ==
    \/ \E batch \in Batches : Upload(batch)
    \/ \E key \in Range(allKeys) : SelectKey(key)
    \/ \E view \in Views : SetActiveView(view)
    \/ \E fileName \in {N_pl, N_en, N_de} : ApplySuggestion(fileName, "y")
    \/ \E i \in 1..3, v \in SavedValues(EmptyObj) : ValueDisplaySave(i, v)
    \/ \E lang \in {N_pl, N_en, N_de}, entries \in BulkEdits : SaveBulk(lang, entries)

PathIdle ==
    /\ kpTree = EmptyObj
    /\ kpOther = EmptyObj
    /\ kpPrev = Undefined
    /\ kpPath = <<>>
    /\ kpValue = Undefined
    /\ kpOp = "idle"
    /\ kpSteps = 0

RefIdle ==
    /\ refHeap = <<EmptyMap>>
    /\ refRoot = Ref(1)
    /\ refHeld = {}
    /\ refPrevHeap = <<>>
    /\ refOp = [op |-> "idle"]
    /\ refSteps = 0

\* no click yet: the components as they mount
NoResult == [t |-> "null"]
NoMessage == "null"
LlmUnclicked ==
    /\ llmHandler = "none"
    /\ llmPhase = "idle"
    /\ llmTasks = <<>>
    /\ llmStatus = <<>>
    /\ llmIssued = <<>>
    /\ llmAll = <<>>
    /\ llmComp = [isLoading |-> FALSE, error |-> NoMessage, result |-> NoResult]
    /\ llmClicks = 0
    /\ llmProgress = [current |-> 0, total |-> 0]

\* and no language selected in the bulk view
LlmIdle == LlmUnclicked /\ selectedLang = <<>>

Init == InitApp /\ PathIdle /\ RefIdle /\ LlmIdle

Spec == Init /\ [][Next]_vars

(***************************************************************************)
(* Key-path session: a tree, a second tree beside it, and writes.         *)
(***************************************************************************)
SegNames == {KA, KB}

\* the key paths offered: every path of one or two segments, and one of three
Paths == {Join(<<x>>) : x \in SegNames} \cup
         {Join(<<x, y>>) : x \in SegNames, y \in SegNames} \cup
         {Join(<<KA, KB, KA>>)}

\* the values written
Values == {Str("y"), Null, EmptyObj, Obj1(KAB, Str("x"))}

\* the trees a session starts from
InitTrees == {EmptyObj,
              Obj1(KAB, Str("x")),
              Obj2(KA, Str("x"), KAB, Str("y")),
              Obj2(KA, Obj1(KB, Arr(<<>>)), KB, Null),
              Obj1(KA, Obj2(KA, Str("x"), KB, Arr(<<Str("x")>>))),
              Obj2(KA, Obj2(KA, Arr(<<Str("x"), Str("y")>>), KB, Arr(<<>>)), KB, Str("x"))}

\* the tree of a second file, never written in the session
OtherTrees == {EmptyObj, Obj2(KA, Str("x"), KB, Obj1(KA, Str("x")))}

InitPath ==
    /\ InitApp
    /\ RefIdle
    /\ LlmIdle
    /\ kpTree \in InitTrees
    /\ kpOther \in OtherTrees
    /\ kpPrev = Undefined
    /\ kpPath = <<>>
    /\ kpValue = Undefined
    /\ kpOp = "init"
    /\ kpSteps = 0

PathSet(p, v) ==
    /\ kpSteps < MaxSets
    /\ kpPrev' = kpTree
    /\ kpTree' = setValueByPath(kpTree, p, v)
    /\ kpPath' = p
    /\ kpValue' = v
    /\ kpOp' = "set"
    /\ kpSteps' = kpSteps + 1
    /\ UNCHANGED <<kpOther, appVars, refVars, llmVars, groupVars>>

NextPath == \E p \in Paths, v \in Values : PathSet(p, v)

SpecPath == InitPath /\ [][NextPath]_vars


(***************************************************************************)
(* Reference session: the tree of one file, written by single edits and by *)
(* bulk saves, while the earlier project states keep their roots.          *)
(***************************************************************************)
\* the heaps a session starts from: {}, and {a: {b: "x", a: {b: "x"}}, b: "x"}
InitHeaps ==
    {<<EmptyMap>>,
     <<Put(Put(EmptyMap, KA, Ref(2)), KB, Str("x")),
       Put(Put(EmptyMap, KB, Str("x")), KA, Ref(3)),
       Put(EmptyMap, KB, Str("x"))>>}

LeafValues == {Str("y"), Null, Arr(<<Str("x")>>)}

InitRef ==
    /\ InitApp
    /\ PathIdle
    /\ LlmIdle
    /\ refHeap \in InitHeaps
    /\ refRoot = Ref(1)
    /\ refHeld = {}
    /\ refPrevHeap = <<>>
    /\ refOp = [op |-> "init"]
    /\ refSteps = 0

\* the holders of the current root keep it, with what they read from it
Hold == refHeld \cup {[root |-> refRoot, value |-> Read(refHeap, refRoot)]}

\* handleUpdateValueAndHistory on the file: data = setValueByPath(data, key, v)
RefUpdateValue(p, v) ==
    /\ refSteps < MaxSets
    /\ LET r == setValueByPathRef(refHeap, refRoot, p, v)
       IN  refHeap' = r.heap /\ refRoot' = r.cell
    /\ refHeld' = Hold
    /\ refPrevHeap' = refHeap
    /\ refOp' = [op |-> "updateValue", path |-> p, value |-> v, from |-> refRoot]
    /\ refSteps' = refSteps + 1
    /\ UNCHANGED <<appVars, kpVars, llmVars, groupVars>>

\* handleSaveBulkTranslations on the file: { ...data }, then one set per key
RefSaveBulk(p1, p2, v) ==
    /\ refSteps < MaxSets
    /\ p1 # p2
    /\ LET copy == ShallowCopy(refHeap, refRoot)
           r == BulkKeysRef(copy.heap, copy.cell,
                            <<[key |-> p1, value |-> v], [key |-> p2, value |-> v]>>)
       IN  refHeap' = r.heap /\ refRoot' = r.cell
    /\ refHeld' = Hold
    /\ refPrevHeap' = refHeap
    /\ refOp' = [op |-> "saveBulk", path |-> p1, value |-> v, from |-> refRoot]
    /\ refSteps' = refSteps + 1
    /\ UNCHANGED <<appVars, kpVars, llmVars, groupVars>>

NextRef ==
    \/ \E p \in Paths, v \in LeafValues : RefUpdateValue(p, v)
    \/ \E p1 \in Paths, p2 \in Paths : RefSaveBulk(p1, p2, Str("y"))

SpecRef == InitRef /\ [][NextRef]_vars

(***************************************************************************)
(* The LLM service (aiService) and the handlers that call it.  A request   *)
(* to generateContent settles with one of the outcomes below; the message  *)
(* of the error decides what the service function makes of a failure.      *)
(***************************************************************************)
CHUNK_SIZE == 10

MaxChunks == 3      \* chunks of the longest bulk translation
MaxClicks == 2      \* clicks on an AI button in one session

\* generateContent: a usable answer, RESOURCE_EXHAUSTED / 429, "API key not
\* valid", or any other failure (network, an answer that is no JSON)
Outcomes == {"ok", "quota", "apiKey", "other"}
Failures == Outcomes \ {"ok"}

Returned(v) == [thrown |-> FALSE, value |-> v, message |-> NoMessage]
Thrown(m) == [thrown |-> TRUE, value |-> NoResult, message |-> m]

\* files.find(f => name includes 'pl' or 'polish'): the index of the file, or 0
N_polish == <<"p", "o", "l", "i", "s", "h">>
polishFileIncludes(files) ==
    LET hits == {i \in 1..Len(files) :
                    Includes(toLowerCase(files[i].name), N_pl) \/
                    Includes(toLowerCase(files[i].name), N_polish)}
    IN  IF hits = {} THEN 0 ELSE CHOOSE i \in hits : \A j \in hits : i <= j

\* files.find(f => name includes 'en' or 'english'): the index of the file, or 0
N_english == <<"e", "n", "g", "l", "i", "s", "h">>
englishFileIncludes(files) ==
    LET hits == {i \in 1..Len(files) :
                    Includes(toLowerCase(files[i].name), N_en) \/
                    Includes(toLowerCase(files[i].name), N_english)}
    IN  IF hits = {} THEN 0 ELSE CHOOSE i \in hits : \A j \in hits : i <= j

\* BulkTranslateView.isReferenceLang: the button Generate is disabled for
\* the Polish and the English file
isReferenceLang(files, lang) ==
    LET pl == polishFileIncludes(files)
        en == englishFileIncludes(files)
    IN  \/ pl # 0 /\ lang = files[pl].name
        \/ en # 0 /\ lang = files[en].name

\* the bulk view's default language: the first of the sorted names that is
\* neither the Polish nor the English file, or the first name
defaultLang(files) ==
    LET editableLangs == SortStrings([i \in 1..Len(files) |-> files[i].name])
        pl == polishFileIncludes(files)
        en == englishFileIncludes(files)
        others == {i \in 1..Len(editableLangs) :
                      /\ pl # 0 => editableLangs[i] # files[pl].name
                      /\ en # 0 => editableLangs[i] # files[en].name}
    IN  IF others = {} THEN editableLangs[1]
        ELSE editableLangs[CHOOSE i \in others : \A j \in others : i <= j]

\* the keys of chunk c: keysToTranslate.slice(i, i + CHUNK_SIZE), i = (c-1) * CHUNK_SIZE
Slice(total, c) ==
    [n \in 1..(IF c * CHUNK_SIZE <= total THEN CHUNK_SIZE ELSE total - (c - 1) * CHUNK_SIZE)
        |-> (c - 1) * CHUNK_SIZE + n]

ChunkCount(total) == (total + CHUNK_SIZE - 1) \div CHUNK_SIZE

\* parsed.translations of the answer to a chunk: one item for each key, its
\* suggestion written for the target language of the request
Translations(task) ==
    [i \in 1..Len(task.keys) |-> [key |-> task.keys[i], suggestion |-> task.lang]]

\* a loop that asks once more for a chunk that failed
bulkTranslateKeysRetry(run, tasks, c, outcome) ==
    LET settled == [run.status EXCEPT ![c] = outcome]
        pushed == IF outcome = "ok" THEN run.all \o Translations(tasks[c]) ELSE run.all
        reported == [run.progress EXCEPT !.current = @ + Len(tasks[c].keys)]
    IN  IF outcome = "quota"
        THEN [status |-> settled, issued |-> run.issued, all |-> pushed, ended |-> "thrown",
              progress |-> run.progress]
        ELSE IF outcome # "ok" /\ run.issued[c] < 2
        THEN [status |-> run.status, issued |-> [run.issued EXCEPT ![c] = @ + 1],
              all |-> pushed, ended |-> "no", progress |-> run.progress]
        ELSE IF c < Len(tasks)
        THEN [status |-> [settled EXCEPT ![c + 1] = "pending"],
              issued |-> [run.issued EXCEPT ![c + 1] = @ + 1],
              all |-> pushed, ended |-> "no", progress |-> reported]
        ELSE [status |-> settled, issued |-> run.issued, all |-> pushed, ended |-> "returned",
              progress |-> reported]

\* a loop that gives up with the first chunk that fails, whatever the failure
bulkTranslateKeysStopOnFailure(run, tasks, c, outcome) ==
    LET settled == [run.status EXCEPT ![c] = outcome]
        pushed == IF outcome = "ok" THEN run.all \o Translations(tasks[c]) ELSE run.all
        reported == [run.progress EXCEPT !.current = @ + Len(tasks[c].keys)]
    IN  IF outcome # "ok"
        THEN [status |-> settled, issued |-> run.issued, all |-> pushed, ended |-> "thrown",
              progress |-> run.progress]
        ELSE IF c < Len(tasks)
        THEN [status |-> [settled EXCEPT ![c + 1] = "pending"],
              issued |-> [run.issued EXCEPT ![c + 1] = @ + 1],
              all |-> pushed, ended |-> "no", progress |-> reported]
        ELSE [status |-> settled, issued |-> run.issued, all |-> pushed, ended |-> "returned",
              progress |-> reported]

\* a loop that has the requests of the next two chunks in flight at once
bulkTranslateKeysPipelined(run, tasks, c, outcome) ==
    LET settled == [run.status EXCEPT ![c] = outcome]
        pushed == IF outcome = "ok" THEN run.all \o Translations(tasks[c]) ELSE run.all
        reported == [run.progress EXCEPT !.current = @ + Len(tasks[c].keys)]
        ahead == {d \in (c + 1)..(c + 2) : d <= Len(tasks) /\ settled[d] = "notIssued"}
    IN  IF outcome = "quota"
        THEN [status |-> settled, issued |-> run.issued, all |-> pushed, ended |-> "thrown",
              progress |-> run.progress]
        ELSE IF \E d \in 1..Len(tasks) : d # c /\ settled[d] \in {"pending", "notIssued"}
        THEN [status |-> [d \in 1..Len(tasks) |-> IF d \in ahead THEN "pending" ELSE settled[d]],
              issued |-> [d \in 1..Len(tasks) |->
                             IF d \in ahead THEN run.issued[d] + 1 ELSE run.issued[d]],
              all |-> pushed, ended |-> "no", progress |-> reported]
        ELSE [status |-> settled, issued |-> run.issued, all |-> pushed, ended |-> "returned",
              progress |-> reported]

\* bulkTranslateKeys, one turn of the loop: the request of chunk c settled.
\* run = [status, issued, all, ended]; ended is "no", "returned" or "thrown"
bulkTranslateKeys(run, tasks, c, outcome) ==
    LET settled == [run.status EXCEPT ![c] = outcome]
        pushed == IF outcome = "ok" THEN run.all \o Translations(tasks[c]) ELSE run.all
        reported == [run.progress EXCEPT !.current = @ + Len(tasks[c].keys)]
    IN  IF outcome = "quota"
        THEN [status |-> settled, issued |-> run.issued, all |-> pushed, ended |-> "thrown",
              progress |-> run.progress]
        ELSE IF c < Len(tasks)
        THEN [status |-> [settled EXCEPT ![c + 1] = "pending"],
              issued |-> [run.issued EXCEPT ![c + 1] = @ + 1],
              all |-> pushed, ended |-> "no", progress |-> reported]
        ELSE [status |-> settled, issued |-> run.issued, all |-> pushed, ended |-> "returned",
              progress |-> reported]

\* results.forEach(item => suggestionsMap[item.key] = item.suggestion)
SuggestionsMap(all) ==
    [t |-> "suggestions",
     m |-> [k \in {all[i].key : i \in 1..Len(all)} |->
               all[CHOOSE i \in 1..Len(all) :
                       all[i].key = k /\ \A j \in 1..Len(all) : all[j].key = k => j <= i
                  ].suggestion]]

\* handleGenerateSuggestions after bulkTranslateKeys returned or threw
handleGenerateSuggestionsSettled(comp, run) ==
    IF run.ended = "returned"
    THEN [comp EXCEPT !.result = SuggestionsMap(run.all), !.isLoading = FALSE]
    ELSE IF run.ended = "thrown"
    THEN [comp EXCEPT !.error = "quota exceeded", !.isLoading = FALSE]
    ELSE comp

\* a click may start a handler when none is awaiting its requests
MayClick ==
    /\ projectData # NoProject
    /\ llmPhase # "running"
    /\ llmClicks < MaxClicks

\* handleGenerateSuggestions up to its await; the keys of the key list are
\* numbered 1..total
StartGenerateSuggestions(total) ==
    /\ MayClick
    /\ activeView = "bulk"
    /\ selectedLang # <<>>
    /\ ~isReferenceLang(projectData.translationFiles, selectedLang)
    /\ llmClicks' = llmClicks + 1
    /\ UNCHANGED selectedLang
    /\ llmHandler' = "bulkSuggest"
    /\ llmAll' = <<>>
    /\ IF polishFileIncludes(projectData.translationFiles) = 0
       THEN /\ llmComp' = [llmComp EXCEPT !.error = "no polish file"]
            /\ llmTasks' = <<>> /\ llmStatus' = <<>> /\ llmIssued' = <<>>
            /\ llmPhase' = "done"
            /\ UNCHANGED llmProgress
       ELSE LET n == ChunkCount(total)
                start == [isLoading |-> TRUE, error |-> NoMessage, result |-> SuggestionsMap(<<>>)]
            IN  /\ llmTasks' = [c \in 1..n |-> [chunk |-> c, keys |-> Slice(total, c),
                                                 lang |-> selectedLang]]
                /\ llmProgress' = [current |-> 0, total |-> total]
                /\ llmStatus' = [c \in 1..n |-> IF c = 1 THEN "pending" ELSE "notIssued"]
                /\ llmIssued' = [c \in 1..n |-> IF c = 1 THEN 1 ELSE 0]
                /\ llmPhase' = IF n = 0 THEN "done" ELSE "running"
                /\ llmComp' = IF n = 0 THEN [start EXCEPT !.isLoading = FALSE] ELSE start
    /\ UNCHANGED <<appVars, kpVars, refVars, groupVars>>

\* the effect on [selectedLang]: the state of the bulk view after it
selectedLangEffect(comp) ==
    [comp EXCEPT !.isLoading = FALSE, !.error = NoMessage, !.result = SuggestionsMap(<<>>)]

\* the bulk view with no language selected yet: the effect selects one
DefaultLang ==
    /\ projectData # NoProject
    /\ activeView = "bulk"
    /\ selectedLang = <<>>
    /\ Len(projectData.translationFiles) > 0
    /\ selectedLang' = defaultLang(projectData.translationFiles)
    /\ llmComp' = IF llmHandler = "bulkSuggest" THEN selectedLangEffect(llmComp) ELSE llmComp
    /\ UNCHANGED <<llmHandler, llmPhase, llmTasks, llmStatus, llmIssued, llmAll, llmClicks,
                   llmProgress, appVars, kpVars, refVars, groupVars>>

\* the language select of the bulk view; the requests in flight go on
SelectLang(lang) ==
    /\ projectData # NoProject
    /\ activeView = "bulk"
    /\ lang \in FileNames
    /\ selectedLang # <<>>
    /\ lang # selectedLang
    /\ selectedLang' = lang
    /\ llmComp' = IF llmHandler = "bulkSuggest" THEN selectedLangEffect(llmComp) ELSE llmComp
    /\ UNCHANGED <<llmHandler, llmPhase, llmTasks, llmStatus, llmIssued, llmAll, llmClicks,
                   llmProgress, appVars, kpVars, refVars, groupVars>>

\* the request of chunk c settles, and bulkTranslateKeys goes on from it
SettleChunk(c, outcome) ==
    /\ llmHandler = "bulkSuggest"
    /\ llmPhase = "running"
    /\ c \in 1..Len(llmStatus)
    /\ llmStatus[c] = "pending"
    /\ LET run == bulkTranslateKeys([status |-> llmStatus, issued |-> llmIssued,
                                     all |-> llmAll, ended |-> "no",
                                     progress |-> llmProgress],
                                    llmTasks, c, outcome)
       IN  /\ llmStatus' = run.status
           /\ llmProgress' = run.progress
           /\ llmIssued' = run.issued
           /\ llmAll' = run.all
           /\ llmComp' = handleGenerateSuggestionsSettled(llmComp, run)
           /\ llmPhase' = IF run.ended = "no" THEN "running" ELSE "done"
    /\ UNCHANGED <<llmHandler, llmTasks, llmClicks, selectedLang, appVars, kpVars, refVars, groupVars>>

\* aiService.analyzeTranslations: every failure is thrown again as an Error
analyzeTranslations(key, outcome) ==
    IF outcome = "ok" THEN Returned([t |-> "analysis", key |-> key])
    ELSE IF outcome = "quota" THEN Thrown("quota exceeded")
    ELSE IF outcome = "apiKey" THEN Thrown("api key not valid")
    ELSE Thrown("unknown error")

\* aiService.generateContextForKey: every failure is thrown again as an Error
generateContextForKey(key, outcome) ==
    IF outcome = "ok" THEN Returned([t |-> "context", key |-> key])
    ELSE IF outcome = "apiKey" THEN Thrown("api key not valid")
    ELSE Thrown("unknown error")

\* files.find(f => name is 'pl' or 'polish'), polishFileFinder: index or 0
polishFileExact(files) ==
    LET hits == {i \in 1..Len(files) :
                    toLowerCase(files[i].name) \in {N_pl, N_polish}}
    IN  IF hits = {} THEN 0 ELSE CHOOSE i \in hits : \A j \in hits : i <= j

\* aiService.analyzeKeyForLanguage before its request: throws with no Polish
\* file among the values
analyzeKeyForLanguageReady(files) == polishFileExact(files) # 0

\* aiService.analyzeKeyForLanguage: an invalid API key is thrown, any other
\* failure is returned as an item that carries the error text
analyzeKeyForLanguage(key, lang, outcome) ==
    IF outcome = "ok" THEN Returned([t |-> "item", key |-> key, lang |-> lang])
    ELSE IF outcome = "apiKey" THEN Thrown("api key not valid")
    ELSE Returned([t |-> "failedItem", key |-> key, lang |-> lang])

\* handleUpdateContext: the project after updateProjectData
handleUpdateContext(prev, key, newContext) ==
    IF getValueByPath(prev.contexts, key) = newContext THEN prev
    ELSE [prev EXCEPT !.contexts = setValueByPath(prev.contexts, key, newContext)]

\* the state a handler sets before it awaits
Loading(result) == [isLoading |-> TRUE, error |-> NoMessage, result |-> result]

\* a catch that also throws the history of the project away
handleAnalyzeSettledReset(comp, project, r) ==
    IF r.thrown
    THEN [comp |-> [comp EXCEPT !.error = r.message, !.isLoading = FALSE],
          project |-> [project EXCEPT !.translationHistory = EmptyMap]]
    ELSE [comp |-> [comp EXCEPT !.result = r.value, !.isLoading = FALSE],
          project |-> project]

\* handleAnalyze / handleSuggestContext after the await: try, catch, finally.
\* [comp, project]: the state of the card, and the project, which neither
\* branch touches
handleAnalyzeSettled(comp, project, r) ==
    IF r.thrown
    THEN [comp |-> [comp EXCEPT !.error = r.message, !.isLoading = FALSE],
          project |-> project]
    ELSE [comp |-> [comp EXCEPT !.result = r.value, !.isLoading = FALSE],
          project |-> project]

\* handleAnalyze of the card of selectedKey, up to its await; localContext is
\* what the context field holds
StartAnalyze(localContext) ==
    /\ MayClick
    /\ activeView = "keys"
    /\ selectedKey # NullKey
    /\ llmClicks' = llmClicks + 1
    /\ llmProgress' = [current |-> 0, total |-> 0]
    /\ UNCHANGED selectedLang
    /\ llmHandler' = "analyze"
    /\ llmAll' = <<>>
    /\ projectData' = handleUpdateContext(projectData, selectedKey, localContext)
    /\ SaveEffect
    /\ IF polishFileIncludes(projectData.translationFiles) = 0
       THEN /\ llmComp' = [llmComp EXCEPT !.error = "no polish file"]
            /\ llmTasks' = <<>> /\ llmStatus' = <<>> /\ llmIssued' = <<>>
            /\ llmPhase' = "done"
       ELSE /\ llmComp' = Loading(NoResult)
            /\ llmTasks' = <<[key |-> selectedKey]>>
            /\ llmStatus' = <<"pending">>
            /\ llmIssued' = <<1>>
            /\ llmPhase' = "running"
    /\ UNCHANGED <<allKeys, selectedKey, activeView, selectedGroupId, groupMode,
                   uploadError, lastOp, prevProject, edits, kpVars, refVars, groupVars>>

\* handleSuggestContext of the card of selectedKey, up to its await
StartSuggestContext ==
    /\ MayClick
    /\ activeView = "keys"
    /\ selectedKey # NullKey
    /\ llmClicks' = llmClicks + 1
    /\ llmProgress' = [current |-> 0, total |-> 0]
    /\ UNCHANGED selectedLang
    /\ llmHandler' = "suggestContext"
    /\ llmAll' = <<>>
    /\ llmComp' = Loading(NoResult)
    /\ llmTasks' = <<[key |-> selectedKey]>>
    /\ llmStatus' = <<"pending">>
    /\ llmIssued' = <<1>>
    /\ llmPhase' = "running"
    /\ UNCHANGED <<appVars, kpVars, refVars, groupVars>>

\* the request of the card settles: the rest of handleAnalyze or of
\* handleSuggestContext
SettleCard(outcome) ==
    /\ llmHandler \in {"analyze", "suggestContext"}
    /\ llmPhase = "running"
    /\ llmStatus' = <<outcome>>
    /\ LET after == handleAnalyzeSettled(llmComp, projectData,
                        IF llmHandler = "analyze"
                        THEN analyzeTranslations(llmTasks[1].key, outcome)
                        ELSE generateContextForKey(llmTasks[1].key, outcome))
       IN  llmComp' = after.comp /\ projectData' = after.project
    /\ SaveEffect
    /\ llmPhase' = "done"
    /\ UNCHANGED <<llmHandler, llmTasks, llmIssued, llmAll, llmClicks,
                   llmProgress, selectedLang,
                   allKeys, selectedKey, activeView, selectedGroupId, groupMode,
                   uploadError, lastOp, prevProject, edits, kpVars, refVars, groupVars>>

\* a result map of the fulfilled requests alone
newAnalysisDataFulfilled(tasks, status) ==
    [t |-> "analysisData",
     m |-> [k \in {tasks[i].key : i \in {j \in 1..Len(tasks) : status[j] = "ok"}} |->
               [result |-> analyzeTranslations(k, "ok").value, error |-> NoMessage]]]

\* handleAnalyzeGroup after Promise.all: newAnalysisData, one entry per result
newAnalysisData(tasks, status) ==
    [t |-> "analysisData",
     m |-> [k \in {tasks[i].key : i \in 1..Len(tasks)} |->
               LET i == CHOOSE j \in 1..Len(tasks) :
                            /\ tasks[j].key = k
                            /\ \A l \in 1..Len(tasks) : tasks[l].key = k => l <= j
                   r == analyzeTranslations(k, status[i])
               IN  [result |-> r.value, error |-> r.message]]]

\* handleAnalyzeGroup up to its await: one request for every key of the group
StartAnalyzeGroup(g) ==
    /\ MayClick
    /\ activeView = "groups"
    /\ g \in 1..Len(projectData.translationGroups)
    /\ llmClicks' = llmClicks + 1
    /\ llmProgress' = [current |-> 0, total |-> 0]
    /\ UNCHANGED selectedLang
    /\ llmHandler' = "analyzeGroup"
    /\ llmAll' = <<>>
    /\ IF polishFileIncludes(projectData.translationFiles) = 0
       THEN /\ UNCHANGED llmComp
            /\ llmTasks' = <<>> /\ llmStatus' = <<>> /\ llmIssued' = <<>>
            /\ llmPhase' = "done"
       ELSE LET keys == projectData.translationGroups[g].keys
                start == [isLoading |-> TRUE, error |-> NoMessage,
                          result |-> newAnalysisData(<<>>, <<>>)]
            IN  /\ llmTasks' = [i \in 1..Len(keys) |-> [key |-> keys[i]]]
                /\ llmStatus' = [i \in 1..Len(keys) |-> "pending"]
                /\ llmIssued' = [i \in 1..Len(keys) |-> 1]
                /\ llmPhase' = IF keys = <<>> THEN "done" ELSE "running"
                /\ llmComp' = IF keys = <<>> THEN [start EXCEPT !.isLoading = FALSE]
                              ELSE start
    /\ UNCHANGED <<appVars, kpVars, refVars, groupVars>>

\* one request of the group settles; with the last one Promise.all resolves
\* and the handler stores the result map
SettleGroupKey(i, outcome) ==
    /\ llmHandler = "analyzeGroup"
    /\ llmPhase = "running"
    /\ i \in 1..Len(llmStatus)
    /\ llmStatus[i] = "pending"
    /\ LET status == [llmStatus EXCEPT ![i] = outcome]
           settled == \A j \in 1..Len(status) : status[j] # "pending"
       IN  /\ llmStatus' = status
           /\ llmPhase' = IF settled THEN "done" ELSE "running"
           /\ llmComp' = IF settled
                         THEN [llmComp EXCEPT !.result = newAnalysisData(llmTasks, status),
                                              !.isLoading = FALSE]
                         ELSE llmComp
    /\ UNCHANGED <<llmHandler, llmTasks, llmIssued, llmAll, llmClicks,
                   llmProgress, selectedLang,
                   appVars, kpVars, refVars, groupVars>>

\* handleGenerateAnalysis after Promise.all resolved: newAnalysisData[key][lang]
bulkAnalysisData(tasks, status) ==
    [t |-> "bulkAnalysisData",
     m |-> [k \in {<<tasks[i].key, tasks[i].lang>> : i \in 1..Len(tasks)} |->
               LET i == CHOOSE j \in 1..Len(tasks) : <<tasks[j].key, tasks[j].lang>> = k
               IN  analyzeKeyForLanguage(k[1], k[2], status[i]).value]]

\* the tasks of handleGenerateAnalysis: every key with every language
BulkTasks(keys, langs) ==
    [n \in 1..(Len(keys) * Len(langs)) |->
        [key |-> keys[((n - 1) \div Len(langs)) + 1],
         lang |-> langs[((n - 1) % Len(langs)) + 1]]]

\* visibleLangs as the effect of lines 38-43 sets it: the Polish and the
\* English file, where there is one
visibleLangs(files) ==
    LET pl == polishFileExact(files)
        hits == {i \in 1..Len(files) : toLowerCase(files[i].name) = N_en}
        en == IF hits = {} THEN 0 ELSE CHOOSE i \in hits : \A j \in hits : i <= j
    IN  (IF pl = 0 THEN <<>> ELSE <<files[pl].name>>) \o
        (IF en = 0 THEN <<>> ELSE <<files[en].name>>)

\* handleGenerateAnalysis up to its await; keys are the filtered keys. With
\* no Polish file every task rejects before it asks anything.
StartGenerateAnalysis(keys) ==
    /\ MayClick
    /\ activeView = "bulk"
    /\ llmClicks' = llmClicks + 1
    /\ llmProgress' = [current |-> 0, total |-> 0]
    /\ UNCHANGED selectedLang
    /\ llmHandler' = "bulkAnalysis"
    /\ llmAll' = <<>>
    /\ LET files == projectData.translationFiles
           tasks == BulkTasks(keys, visibleLangs(files))
           ready == analyzeKeyForLanguageReady(files)
       IN  /\ llmTasks' = tasks
           /\ llmStatus' = [i \in 1..Len(tasks) |-> IF ready THEN "pending" ELSE "notIssued"]
           /\ llmIssued' = [i \in 1..Len(tasks) |-> IF ready THEN 1 ELSE 0]
           /\ llmPhase' = IF tasks = <<>> THEN "done"
                          ELSE IF ready THEN "running" ELSE "escaped"
           /\ llmComp' = IF tasks = <<>>
                         THEN [isLoading |-> FALSE, error |-> NoMessage,
                               result |-> bulkAnalysisData(<<>>, <<>>)]
                         ELSE Loading(bulkAnalysisData(<<>>, <<>>))
    /\ UNCHANGED <<appVars, kpVars, refVars, groupVars>>

\* one task of handleGenerateAnalysis settles.  A task that throws rejects
\* Promise.all, and the await in the handler, which has no catch, throws:
\* the rest of the handler never runs, while the other tasks go on to
\* settle.  With the last task fulfilled the handler stores the analysis
\* data.
SettleBulkTask(i, outcome) ==
    /\ llmHandler = "bulkAnalysis"
    /\ llmPhase \in {"running", "escaped"}
    /\ i \in 1..Len(llmStatus)
    /\ llmStatus[i] = "pending"
    /\ LET status == [llmStatus EXCEPT ![i] = outcome]
           r == analyzeKeyForLanguage(llmTasks[i].key, llmTasks[i].lang, outcome)
           settled == \A j \in 1..Len(status) : status[j] # "pending"
       IN  /\ llmStatus' = status
           /\ llmPhase' = IF r.thrown \/ llmPhase = "escaped" THEN "escaped"
                          ELSE IF settled THEN "done" ELSE "running"
           /\ llmComp' = IF ~r.thrown /\ settled /\ llmPhase = "running"
                         THEN [llmComp EXCEPT !.result = bulkAnalysisData(llmTasks, status),
                                              !.isLoading = FALSE]
                         ELSE llmComp
    /\ UNCHANGED <<llmHandler, llmTasks, llmIssued, llmAll, llmClicks,
                   llmProgress, selectedLang,
                   appVars, kpVars, refVars, groupVars>>

\* the imports an AI session starts from: one with a Polish file, one without
LlmBatches ==
    {Loose(<<F_pl, F_en, F_context, F_history, F_groups, F_global>>),
     Loose(<<F_en, F_de, F_groups>>),
     Loose(<<F_pl, F_en, F_de>>)}

\* the numbers of keys handed to bulkTranslateKeys: none, full chunks, and a
\* last chunk of four
Totals == {0} \cup {CHUNK_SIZE * c : c \in 1..MaxChunks}
              \cup {CHUNK_SIZE * (c - 1) + 4 : c \in 1..MaxChunks}

\* the application after the import of batch in a new session
Imported(batch) ==
    /\ PathIdle
    /\ RefIdle
    /\ LlmUnclicked
    /\ formState = NoForm
    /\ formLoaded = NullId
    /\ formClicks = 0
    /\ LET done == processFiles(batch)
           next == handleFilesUpload(done.result, "keys")
       IN  /\ uploadError = done.error
           /\ projectData = next.projectData
           /\ selectedGroupId = next.selectedGroupId
           /\ groupMode = next.groupMode
           /\ allKeys = next.allKeys
           /\ selectedKey = next.selectedKey
           /\ activeView = next.activeView
           /\ lastOp = [op |-> "upload", batch |-> batch]
           /\ storage = SavedItem(next.projectData, NoItem)
    /\ initialDataFromStorage = NoProject
    /\ prevProject = NoProject
    /\ edits = 0

InitLlm ==
    \E batch \in LlmBatches :
        /\ Imported(batch)
        /\ selectedLang = defaultLang(projectData.translationFiles)

NextLlm ==
    \/ \E view \in Views : SetActiveView(view)
    \/ ApplySuggestion(N_en, "y")
    \/ \E localContext \in {Str(""), Str("ctx2")} : StartAnalyze(localContext)
    \/ StartSuggestContext
    \/ \E outcome \in Outcomes : SettleCard(outcome)
    \/ \E g \in {1} : StartAnalyzeGroup(g)
    \/ \E i \in DOMAIN llmStatus, outcome \in Outcomes : SettleGroupKey(i, outcome)
    \/ \E n \in 0..2 : StartGenerateAnalysis(SubSeq(allKeys, 1, n))
    \/ \E i \in DOMAIN llmStatus, outcome \in Outcomes : SettleBulkTask(i, outcome)
    \/ \E total \in Totals : StartGenerateSuggestions(total)
    \/ \E c \in DOMAIN llmStatus, outcome \in Outcomes : SettleChunk(c, outcome)

SpecLlm == InitLlm /\ [][NextLlm]_vars

(***************************************************************************)
(* The bulk view with its language select: a project with a Polish, an     *)
(* English and a German file, or one whose Polish file is named pl_pl, the *)
(* view opened with no language selected, and the requests of              *)
(* handleGenerateSuggestions and of handleGenerateAnalysis settling while  *)
(* the user goes on using the select.                                      *)
(***************************************************************************)
N_pl_pl == <<"p", "l", "_", "p", "l">>
F_pl_pl == [name |-> N_pl_pl \o JsonExt, text |-> ValidText(T_pl)]

BulkBatches ==
    {Loose(<<F_pl, F_en, F_de>>), Loose(<<F_en, F_pl_pl, F_de>>)}

InitBulk ==
    \E batch \in BulkBatches :
        /\ Imported(batch)
        /\ selectedLang = <<>>

NextBulk ==
    \/ SetActiveView("bulk")
    \/ DefaultLang
    \/ \E lang \in {N_pl, N_pl_pl, N_en, N_de} : SelectLang(lang)
    \/ \E total \in Totals : StartGenerateSuggestions(total)
    \/ \E c \in DOMAIN llmStatus, outcome \in Outcomes : SettleChunk(c, outcome)
    \/ \E n \in 0..2 : StartGenerateAnalysis(SubSeq(allKeys, 1, n))
    \/ \E i \in DOMAIN llmStatus, outcome \in Outcomes : SettleBulkTask(i, outcome)

SpecBulk == InitBulk /\ [][NextBulk]_vars

(***************************************************************************)
(* The stored session: the handlers that change the project outside the    *)
(* key view, a reload of the page, and the two buttons of the welcome      *)
(* screen of a session that found a snapshot.                              *)
(***************************************************************************)
\* updateProjectData(updater) as an action: the project, the save effect
\* and the record of the operation
UpdateProject(op, next) ==
    /\ projectData # NoProject
    /\ edits < MaxEdits
    /\ edits' = edits + 1
    /\ prevProject' = projectData
    /\ projectData' = next
    /\ lastOp' = op
    /\ SaveEffect

\* TranslationAnalysisCard.handleContextBlur -> App.handleUpdateContext
UpdateContext(newContext) ==
    /\ projectData # NoProject
    /\ activeView = "keys"
    /\ selectedKey # NullKey
    /\ getValueByPath(projectData.contexts, selectedKey) # newContext
    /\ UpdateProject([op |-> "updateContext", key |-> selectedKey, value |-> newContext],
                     handleUpdateContext(projectData, selectedKey, newContext))
    /\ UNCHANGED <<allKeys, selectedKey, activeView, selectedGroupId, groupMode,
                   uploadError, kpVars, refVars, llmVars, groupVars>>

\* BulkTranslateView: onUpdateGlobalContext
UpdateGlobalContext(newContext) ==
    /\ projectData # NoProject
    /\ activeView = "bulk"
    /\ UpdateProject([op |-> "updateGlobalContext", value |-> newContext],
                     [projectData EXCEPT !.globalContext = newContext])
    /\ UNCHANGED <<allKeys, selectedKey, activeView, selectedGroupId, groupMode,
                   uploadError, kpVars, refVars, llmVars, groupVars>>

\* groups.filter(g => g.id !== id)
RECURSIVE WithoutGroup(_, _)
WithoutGroup(groups, id) ==
    IF groups = <<>> THEN <<>>
    ELSE IF Head(groups).id = id THEN WithoutGroup(Tail(groups), id)
    ELSE <<Head(groups)>> \o WithoutGroup(Tail(groups), id)

\* GroupListPanel: onDeleteGroup
DeleteGroup(id) ==
    /\ projectData # NoProject
    /\ activeView = "groups"
    /\ \E i \in 1..Len(projectData.translationGroups) :
           projectData.translationGroups[i].id = id
    /\ LET updated == WithoutGroup(projectData.translationGroups, id)
           chosen == IF selectedGroupId = id
                     THEN IF Len(updated) > 0 THEN updated[1].id ELSE NullId
                     ELSE selectedGroupId
       IN  /\ UpdateProject([op |-> "deleteGroup", id |-> id],
                            [projectData EXCEPT !.translationGroups = updated])
           /\ selectedGroupId' = selectedGroupIdEffect(updated, chosen, groupMode)
    /\ UNCHANGED <<allKeys, selectedKey, activeView, groupMode,
                   uploadError, kpVars, refVars, llmVars, groupVars>>

\* new Set(array) as the sequence of its members in insertion order
RECURSIVE NewSet(_)
NewSet(arr) ==
    IF arr = <<>> THEN <<>>
    ELSE LET front == NewSet(SubSeq(arr, 1, Len(arr) - 1))
             x == arr[Len(arr)]
         IN  IF x \in Range(front) THEN front ELSE Append(front, x)

\* useState of GroupEditorForm: initialData is a sequence of zero or one
\* groups (groups.find(g => g.id === selectedGroupId))
InitialForm(initialData) ==
    IF initialData = <<>>
    THEN [name |-> "", context |-> "", searchQuery |-> <<>>,
          selectedKeys |-> <<>>, referenceKeys |-> <<>>]
    ELSE [name |-> initialData[1].name, context |-> initialData[1].context,
          searchQuery |-> <<>>,
          selectedKeys |-> NewSet(initialData[1].keys),
          referenceKeys |-> NewSet(initialData[1].referenceKeys)]

\* GroupListPanel: onStartCreating
StartCreating ==
    /\ projectData # NoProject
    /\ activeView = "groups"
    /\ groupMode # "create"
    /\ groupMode' = "create"
    /\ selectedGroupId' = NullId
    /\ formState' = IF groupMode = "list" THEN InitialForm(<<>>) ELSE formState
    /\ formLoaded' = IF groupMode = "list" THEN NullId ELSE formLoaded
    /\ formClicks' = formClicks
    /\ UNCHANGED <<projectData, allKeys, selectedKey, activeView,
                   uploadError, lastOp, prevProject, edits, storage,
                   initialDataFromStorage, kpVars, refVars, llmVars>>

\* String(Date.now()) of the groups made in a session
NewIds == <<"g2", "g3", "g4", "g5">>

\* GroupsView.handleSaveGroup in create mode
SaveNewGroup(groupData) ==
    /\ projectData # NoProject
    /\ activeView = "groups"
    /\ groupMode = "create"
    /\ edits < Len(NewIds)
    /\ LET newGroup == [id |-> NewIds[edits + 1], name |-> groupData.name,
                        context |-> groupData.context, keys |-> groupData.keys,
                        referenceKeys |-> groupData.referenceKeys]
       IN  /\ UpdateProject([op |-> "saveGroup", mode |-> "create", id |-> newGroup.id,
                             loaded |-> formLoaded],
                            [projectData EXCEPT !.translationGroups = Append(@, newGroup)])
           /\ selectedGroupId' = newGroup.id
    /\ groupMode' = "list"
    /\ formState' = NoForm
    /\ formLoaded' = NullId
    /\ formClicks' = formClicks
    /\ UNCHANGED <<allKeys, selectedKey, activeView, uploadError, kpVars, refVars, llmVars>>

\* the form of a new group filled with a name and keys, and saved
SaveGroup(keys) ==
    SaveNewGroup([name |-> "N", context |-> "", keys |-> keys, referenceKeys |-> <<>>])

\* the page is loaded again: every state of App is what useState gives it,
\* and the mount effect reads the item
Reload ==
    /\ projectData' = NoProject
    /\ initialDataFromStorage' = IF storage = NoItem THEN NoProject ELSE JSONparse(storage)
    /\ allKeys' = <<>>
    /\ selectedKey' = NullKey
    /\ activeView' = "keys"
    /\ selectedGroupId' = NullId
    /\ groupMode' = "list"
    /\ uploadError' = NoError
    /\ lastOp' = [op |-> "reload"]
    /\ prevProject' = IF projectData # NoProject THEN projectData ELSE prevProject
    /\ formState' = NoForm
    /\ formLoaded' = NullId
    /\ formClicks' = formClicks
    /\ UNCHANGED <<storage, edits, kpVars, refVars, llmVars>>

\* handleContinueSession: [projectData, allKeys, selectedKey, selectedGroupId]
handleContinueSession(initial, groupId) ==
    LET sortedKeys == UnionKeys(initial.translationFiles)
    IN  [projectData |-> initial,
         allKeys |-> sortedKeys,
         selectedKey |-> IF Len(sortedKeys) > 0 THEN sortedKeys[1] ELSE NullKey,
         selectedGroupId |->
             IF Len(initial.translationGroups) > 0
             THEN initial.translationGroups[1].id ELSE groupId]

\* the button Continue Session
ContinueSession ==
    /\ projectData = NoProject
    /\ initialDataFromStorage # NoProject
    /\ LET next == handleContinueSession(initialDataFromStorage, selectedGroupId)
       IN  /\ projectData' = next.projectData
           /\ allKeys' = next.allKeys
           /\ selectedKey' = next.selectedKey
           /\ selectedGroupId' = next.selectedGroupId
    /\ lastOp' = [op |-> "continue"]
    /\ SaveEffect
    /\ UNCHANGED <<activeView, groupMode, uploadError, prevProject, edits,
                   kpVars, refVars, llmVars, groupVars>>

\* the button Import New Project, confirmed
handleStartNewProject ==
    /\ projectData = NoProject
    /\ initialDataFromStorage # NoProject
    /\ storage' = NoItem
    /\ projectData' = NoProject
    /\ initialDataFromStorage' = NoProject
    /\ lastOp' = [op |-> "startNew"]
    /\ UNCHANGED <<allKeys, selectedKey, activeView, selectedGroupId, groupMode,
                   uploadError, prevProject, edits, kpVars, refVars, llmVars, groupVars>>

StoreBatches ==
    {Loose(<<F_pl, F_en, F_context, F_history, F_groups, F_global>>),
     Loose(<<F_en_count>>)}

NextStore ==
    \/ \E batch \in StoreBatches : Upload(batch)
    \/ \E key \in Range(allKeys) : SelectKey(key)
    \/ \E view \in Views : SetActiveView(view)
    \/ ApplySuggestion(N_en, "y")
    \/ \E v \in SavedValues(Num(1)) : ValueDisplaySave(1, v)
    \/ \E entries \in BulkEdits : SaveBulk(N_en, entries)
    \/ \E newContext \in {Str(""), Str("ctx2")} : UpdateContext(newContext)
    \/ \E newContext \in {"", "about2"} : UpdateGlobalContext(newContext)
    \/ \E id \in {"g1", "g2"} : DeleteGroup(id)
    \/ StartCreating
    \/ SaveGroup(<<KB>>)
    \/ Reload
    \/ ContinueSession
    \/ handleStartNewProject

SpecStore == Init /\ [][NextStore]_vars

(***************************************************************************)
(* The group session: the sidebar of the groups view (GroupListPanel), the *)
(* group shown by GroupsView and the form GroupEditorForm.  GroupsView     *)
(* renders the form in the modes 'create' and 'edit' without a key, so the *)
(* form keeps its state while the mode or the selected group changes under *)
(* it, and loses it when the mode returns to 'list'.                       *)
(***************************************************************************)
\* groups.find(g => g.id === id), as a sequence of zero or one groups
GroupById(groups, id) ==
    LET found == {i \in 1..Len(groups) : groups[i].id = id}
    IN  IF found = {} THEN <<>>
        ELSE <<groups[CHOOSE i \in found : \A j \in found : i <= j]>>

GroupIds == {projectData.translationGroups[i].id :
                i \in 1..Len(projectData.translationGroups)}

\* the form is rendered
FormOpen ==
    /\ projectData # NoProject
    /\ activeView = "groups"
    /\ groupMode # "list"

\* array.filter(x => x !== key)
RECURSIVE WithoutKey(_, _)
WithoutKey(arr, key) ==
    IF arr = <<>> THEN <<>>
    ELSE IF Head(arr) = key THEN WithoutKey(Tail(arr), key)
    ELSE <<Head(arr)>> \o WithoutKey(Tail(arr), key)

\* allKeys.filter(pred), pred given as the set of the keys it accepts
RECURSIVE FilterKeys(_, _)
FilterKeys(arr, accepted) ==
    IF arr = <<>> THEN <<>>
    ELSE IF Head(arr) \in accepted THEN <<Head(arr)>> \o FilterKeys(Tail(arr), accepted)
    ELSE FilterKeys(Tail(arr), accepted)

\* GroupEditorForm.searchResults; the values of the files are strings of
\* one character
searchResults(form, mode, keys, files) ==
    IF form.searchQuery = <<>>
    THEN IF mode = "edit" THEN SortStrings(form.selectedKeys) ELSE <<>>
    ELSE LET pl == polishFileIncludes(files)
             Matches(key) ==
                 \/ mode = "edit" /\ key \in Range(form.selectedKeys)
                 \/ Includes(toLowerCase(key), toLowerCase(form.searchQuery))
                 \/ /\ pl # 0
                    /\ LET value == getValueByPath(files[pl].data, key)
                       IN  /\ value.t = "string"
                           /\ Includes(toLowerCase(<<value.s>>),
                                       toLowerCase(form.searchQuery))
         IN  FilterKeys(keys, {key \in Range(keys) : Matches(key)})

\* GroupEditorForm.displayedKeys: the rows of the table
displayedKeys(form, mode, keys, files) ==
    IF form.searchQuery # <<>> THEN searchResults(form, mode, keys, files)
    ELSE SortStrings(form.selectedKeys)

\* GroupEditorForm.toggleKeySelection: the form after the click
toggleKeySelection(form, key) ==
    IF key \in Range(form.selectedKeys)
    THEN [form EXCEPT !.selectedKeys = WithoutKey(@, key),
                      !.referenceKeys = WithoutKey(@, key)]
    ELSE [form EXCEPT !.selectedKeys = Append(@, key)]

\* GroupEditorForm.toggleReferenceKey: the form after the click
toggleReferenceKey(form, key) ==
    IF key \in Range(form.referenceKeys)
    THEN [form EXCEPT !.referenceKeys = WithoutKey(@, key)]
    ELSE IF key \in Range(form.selectedKeys)
         THEN [form EXCEPT !.referenceKeys = Append(@, key)]
         ELSE form

\* the checkbox of the table header: checked is what the click makes of the
\* checkbox, the form after onChange
toggleAll(form, results) ==
    LET checked == ~(Len(results) > 0 /\ Len(form.selectedKeys) >= Len(results))
    IN  [form EXCEPT !.selectedKeys = IF checked THEN NewSet(results) ELSE <<>>]

MaxFormClicks == 3

\* a click in the form changed its state
FormChange(next) ==
    /\ FormOpen
    /\ formClicks < MaxFormClicks
    /\ next # formState
    /\ formState' = next
    /\ formClicks' = formClicks + 1
    /\ UNCHANGED <<formLoaded, appVars, kpVars, refVars, llmVars>>

\* the name field of the form
SetName(name) ==
    FormChange([formState EXCEPT !.name = name])

\* the search field of the form
SetSearchQuery(query) ==
    FormChange([formState EXCEPT !.searchQuery = query])

\* the checkbox of a row of the table
ToggleKey(key) ==
    /\ FormOpen
    /\ key \in Range(displayedKeys(formState, groupMode, allKeys,
                                    projectData.translationFiles))
    /\ FormChange(toggleKeySelection(formState, key))

\* the star of a row of the table, disabled unless the key is selected
ToggleReference(key) ==
    /\ FormOpen
    /\ key \in Range(displayedKeys(formState, groupMode, allKeys,
                                    projectData.translationFiles))
    /\ key \in Range(formState.selectedKeys)
    /\ FormChange(toggleReferenceKey(formState, key))

\* the checkbox of the table header
ToggleAll ==
    /\ FormOpen
    /\ FormChange(toggleAll(formState, searchResults(formState, groupMode, allKeys,
                                                     projectData.translationFiles)))

\* GroupListPanel: onSelectGroup
SelectGroup(id) ==
    /\ projectData # NoProject
    /\ activeView = "groups"
    /\ id \in GroupIds
    /\ ~(selectedGroupId = id /\ groupMode = "list")
    /\ selectedGroupId' = id
    /\ groupMode' = "list"
    /\ formState' = NoForm
    /\ formLoaded' = NullId
    /\ formClicks' = formClicks
    /\ UNCHANGED <<projectData, allKeys, selectedKey, activeView,
                   uploadError, lastOp, prevProject, edits, storage,
                   initialDataFromStorage, kpVars, refVars, llmVars>>

\* the form after the mode became 'edit' with the group id selected: mounted
\* with the data of the group when no form was open, kept when one was
OpenEditor(id) ==
    /\ groupMode' = "edit"
    /\ selectedGroupId' = id
    /\ formState' = IF groupMode = "list"
                     THEN InitialForm(GroupById(projectData.translationGroups, id))
                     ELSE formState
    /\ formLoaded' = IF groupMode = "list" THEN id ELSE formLoaded
    /\ formClicks' = formClicks
    /\ UNCHANGED <<projectData, allKeys, selectedKey, activeView,
                   uploadError, lastOp, prevProject, edits, storage,
                   initialDataFromStorage, kpVars, refVars, llmVars>>

\* GroupListPanel: onStartEditing
StartEditing(id) ==
    /\ projectData # NoProject
    /\ activeView = "groups"
    /\ id \in GroupIds
    /\ ~(selectedGroupId = id /\ groupMode = "edit")
    /\ OpenEditor(id)

\* GroupsView: the button Edit Group of the selected group
EditGroup ==
    /\ projectData # NoProject
    /\ activeView = "groups"
    /\ groupMode = "list"
    /\ selectedGroupId \in GroupIds
    /\ OpenEditor(selectedGroupId)

\* GroupEditorForm: onCancel
CancelForm ==
    /\ FormOpen
    /\ groupMode' = "list"
    /\ selectedGroupId' = selectedGroupIdEffect(projectData.translationGroups,
                                                selectedGroupId, "list")
    /\ formState' = NoForm
    /\ formLoaded' = NullId
    /\ formClicks' = formClicks
    /\ UNCHANGED <<projectData, allKeys, selectedKey, activeView,
                   uploadError, lastOp, prevProject, edits, storage,
                   initialDataFromStorage, kpVars, refVars, llmVars>>

\* groups.map(g => g.id === selectedGroupId ? {...g, ...groupData} : g)
updatedGroups(groups, id, groupData) ==
    [i \in 1..Len(groups) |->
        IF groups[i].id = id
        THEN [id |-> groups[i].id, name |-> groupData.name, context |-> groupData.context,
              keys |-> groupData.keys, referenceKeys |-> groupData.referenceKeys]
        ELSE groups[i]]

\* GroupsView.handleSaveGroup in edit mode
SaveEditedGroup(groupData) ==
    /\ projectData # NoProject
    /\ activeView = "groups"
    /\ groupMode = "edit"
    /\ selectedGroupId # NullId
    /\ LET updated == updatedGroups(projectData.translationGroups, selectedGroupId,
                                    groupData)
       IN  /\ UpdateProject([op |-> "saveGroup", mode |-> "edit", id |-> selectedGroupId,
                             loaded |-> formLoaded],
                            [projectData EXCEPT !.translationGroups = updated])
           /\ selectedGroupId' = selectedGroupIdEffect(updated, selectedGroupId, "list")
    /\ groupMode' = "list"
    /\ formState' = NoForm
    /\ formLoaded' = NullId
    /\ formClicks' = formClicks
    /\ UNCHANGED <<allKeys, selectedKey, activeView, uploadError, kpVars, refVars, llmVars>>

\* GroupEditorForm.handleSave: what onSave is called with
FormData ==
    [name |-> formState.name, context |-> formState.context,
     keys |-> formState.selectedKeys, referenceKeys |-> formState.referenceKeys]

\* GroupEditorForm.handleSave goes on to onSave
FormValid ==
    /\ FormOpen
    /\ formState.name # ""
    /\ Len(formState.selectedKeys) > 0

\* the button Save Group of a form in create mode
SaveFormNew ==
    FormValid /\ SaveNewGroup(FormData)

\* the button Save Group of a form in edit mode
SaveFormEdit ==
    FormValid /\ SaveEditedGroup(FormData)

F_groups2 == [name |-> N_groups \o JsonExt,
              text |-> ValidText(<<[id |-> "g1", name |-> "G", context |-> "",
                                   keys |-> <<KA, KB>>, referenceKeys |-> <<KA>>],
                                  [id |-> "g0", name |-> "H", context |-> "",
                                   keys |-> <<KB>>, referenceKeys |-> <<>>]>>)]

F_groups3 == [name |-> N_groups \o JsonExt,
              text |-> ValidText(<<[id |-> "g1", name |-> "G", context |-> "",
                                   keys |-> <<KAB>>, referenceKeys |-> <<KAB>>],
                                  [id |-> "g0", name |-> "H", context |-> "",
                                   keys |-> <<KAB>>, referenceKeys |-> <<>>]>>)]

FormBatches ==
    {Loose(<<F_en, F_groups2>>)}

GroupBatches ==
    {Loose(<<F_pl, F_groups3>>)}

Queries == {<<>>, <<"b">>}

Ids == {"g0", "g1"} \cup Range(NewIds)

\* the form: a group is opened or begun, changed by clicks and saved
NextForm ==
    \/ \E batch \in FormBatches : Upload(batch)
    \/ SetActiveView("groups")
    \/ \E id \in Ids : StartEditing(id)
    \/ StartCreating
    \/ SetName("N")
    \/ \E query \in Queries : SetSearchQuery(query)
    \/ \E key \in Range(allKeys) : ToggleKey(key)
    \/ \E key \in Range(allKeys) : ToggleReference(key)
    \/ ToggleAll
    \/ SaveFormNew
    \/ SaveFormEdit

SpecForm == Init /\ [][NextForm]_vars

\* the sidebar and the views around the form
NextGroups ==
    \/ \E batch \in GroupBatches : Upload(batch)
    \/ \E view \in {"keys", "groups"} : SetActiveView(view)
    \/ \E id \in Ids : SelectGroup(id)
    \/ \E id \in Ids : StartEditing(id)
    \/ \E id \in Ids : DeleteGroup(id)
    \/ EditGroup
    \/ StartCreating
    \/ CancelForm
    \/ SetName("N")
    \/ SetSearchQuery(<<"b">>)
    \/ \E key \in Range(allKeys) : ToggleKey(key)
    \/ SaveFormNew
    \/ SaveFormEdit

SpecGroups == Init /\ [][NextGroups]_vars

(***************************************************************************)
(* Vocabulary of the key-path claims.                                      *)
(***************************************************************************)
Front(s) == SubSeq(s, 1, Len(s) - 1)
Last(s) == s[Len(s)]

RECURSIVE NodeAt(_, _)
\* the node reached from tree by the property names segs, as a sequence of
\* zero or one nodes; resolved from the last segment backwards
NodeAt(tree, segs) ==
    IF segs = <<>> THEN <<tree>>
    ELSE LET parent == NodeAt(tree, Front(segs))
         IN  IF parent = <<>> THEN <<>>
             ELSE IF parent[1].t = "object" /\ Last(segs) \in DOMAIN parent[1].m
                  THEN <<parent[1].m[Last(segs)]>>
                  ELSE <<>>

\* path addresses a value of tree that is not a mapping
ResolvesToLeaf(tree, path) ==
    LET n == NodeAt(tree, Split(path)) IN n # <<>> /\ n[1].t # "object"

\* path addresses some value of tree, leaf or mapping
Present(tree, path) == NodeAt(tree, Split(path)) # <<>>

\* C1: round trip. For a leaf path p produced by flattening the tree T and a
\* JSON value v, reading p from set(T, p, v) gives v.
C1_RoundTrip ==
    (kpOp = "set" /\ kpPath \in Range(flattenObjectKeys(kpPrev)))
        => getValueByPath(kpTree, kpPath) = kpValue

C1_Witness ==
    /\ kpOp = "set"
    /\ kpPath \in Range(flattenObjectKeys(kpPrev))
    /\ Len(Split(kpPath)) = 2
    /\ ResolvesToLeaf(kpPrev, kpPath)
    /\ getValueByPath(kpPrev, kpPath) # kpValue
    /\ getValueByPath(kpTree, kpPath) = kpValue

\* C2 as stated: non-interference for any two distinct paths present in T,
\* get(set(T, p1, v), p2) = get(T, p2).
C2_NonInterferencePresent ==
    kpOp = "set" =>
        \A p2 \in Paths :
            (p2 # kpPath /\ Present(kpPrev, kpPath) /\ Present(kpPrev, p2))
                => getValueByPath(kpTree, p2) = getValueByPath(kpPrev, p2)

\* C2 amended: non-interference for any two distinct paths that both resolve
\* to a leaf (non-mapping) value of T, get(set(T, p1, v), p2) = get(T, p2).
C2_NonInterferenceLeaves ==
    kpOp = "set" =>
        \A p2 \in Paths :
            (p2 # kpPath /\ ResolvesToLeaf(kpPrev, kpPath) /\ ResolvesToLeaf(kpPrev, p2))
                => getValueByPath(kpTree, p2) = getValueByPath(kpPrev, p2)

C2_Witness ==
    /\ kpOp = "set"
    /\ ResolvesToLeaf(kpPrev, kpPath)
    /\ getValueByPath(kpPrev, kpPath) # kpValue
    /\ \E p2 \in Paths :
          /\ p2 # kpPath
          /\ ResolvesToLeaf(kpPrev, p2)
          /\ Split(p2)[1] = Split(kpPath)[1]
          /\ Len(Split(p2)) = 2
          /\ getValueByPath(kpTree, p2) = getValueByPath(kpPrev, p2)

\* the mappings on the path keep every other key: for each node of prev on
\* the way to path, the keys beside the path have the same value in next
SiblingsKept(prev, next, path) ==
    LET segs == Split(path) IN
    \A i \in 1..Len(segs) :
        LET parent == NodeAt(prev, SubSeq(segs, 1, i - 1))
            after == NodeAt(next, SubSeq(segs, 1, i - 1))
        IN  (parent # <<>> /\ parent[1].t = "object") =>
                /\ after # <<>>
                /\ after[1].t = "object"
                /\ \A k \in (DOMAIN parent[1].m) \ {segs[i]} :
                       k \in DOMAIN after[1].m /\ after[1].m[k] = parent[1].m[k]

\* C3: path creation. set(T, p, v) on a path p that does not exist in T
\* creates every missing intermediate mapping, get(result, p) = v, and every
\* key that was a sibling of a node on the path keeps its previous value.
C3_PathCreation ==
    (kpOp = "set" /\ ~Present(kpPrev, kpPath)) =>
        /\ getValueByPath(kpTree, kpPath) = kpValue
        /\ \A i \in 0..(Len(Split(kpPath)) - 1) :
              LET n == NodeAt(kpTree, SubSeq(Split(kpPath), 1, i))
              IN  n # <<>> /\ n[1].t = "object"
        /\ SiblingsKept(kpPrev, kpTree, kpPath)

C3_Witness ==
    /\ kpOp = "set"
    /\ ~Present(kpPrev, kpPath)
    /\ Len(Split(kpPath)) = 2
    /\ ~Present(kpPrev, Split(kpPath)[1])
    /\ DOMAIN kpPrev.m # {}
    /\ getValueByPath(kpTree, kpPath) = kpValue

\* path resolves, in tree, to a leaf of the kind discovery lists: a value
\* that is no mapping and no empty array
ListedLeaf(tree, path) == ResolvesToLeaf(tree, path) /\ getValueByPath(tree, path) # Arr(<<>>)

\* the two trees of the session as the files of a project
PathFiles == <<[name |-> N_pl, data |-> kpOther], [name |-> N_en, data |-> kpTree]>>

\* C6: missing-key tolerance. get(tree, p) is undefined, and nothing is raised,
\* whenever the tree is null or undefined or a segment of p is absent or is
\* reached through a value that is no mapping; and a key that one file lacks
\* is in the key universe when the other file has it as a leaf (a value that
\* is no mapping and, as discovery skips those, no empty array).
C6_MissingKeyTolerance ==
    /\ \A p \in Paths : \A tree \in {kpTree, kpOther, Undefined, Null} :
           ~Present(tree, p) => getValueByPath(tree, p) = Undefined
    /\ \A universe \in {Range(UnionKeys(PathFiles))} : \A p \in Paths :
           /\ (~Present(kpTree, p) /\ ListedLeaf(kpOther, p)) => p \in universe
           /\ (~Present(kpOther, p) /\ ListedLeaf(kpTree, p)) => p \in universe

C6_Witness ==
    /\ kpOp = "set"
    /\ \E p \in Paths :
          /\ Len(Split(p)) = 2
          /\ p \in Range(flattenObjectKeys(kpOther))
          /\ ResolvesToLeaf(kpTree, Join(<<Split(p)[1]>>))
          /\ getValueByPath(kpTree, p) = Undefined
          /\ p \in Range(UnionKeys(PathFiles))
    /\ \E q \in Paths :
          /\ q \in Range(flattenObjectKeys(kpTree))
          /\ getValueByPath(kpOther, q) = Undefined

RECURSIVE Groupings(_)
\* the ways to read the dots of a path, given by its segments, as separators
\* or as part of a property name: each a sequence of property names
Groupings(segs) ==
    {<<Join(segs)>>} \cup
    UNION {{<<Join(SubSeq(segs, 1, i))>> \o rest :
               rest \in Groupings(SubSeq(segs, i + 1, Len(segs)))} :
           i \in 1..(Len(segs) - 1)}

\* the property names ns lead, in tree, to a leaf that discovery lists
LeafBranch(tree, ns) ==
    LET n == NodeAt(tree, ns)
    IN  n # <<>> /\ n[1].t # "object" /\ n[1] # Arr(<<>>)

\* C7 as stated: a path is in the key universe if and only if it resolves to
\* a non-mapping value in at least one loaded file.
C7_UniverseIsResolvedLeaves ==
    \A universe \in {Range(UnionKeys(PathFiles))} :
    \A p \in Paths \cup universe :
        p \in universe <=> \E i \in 1..Len(PathFiles) : ResolvesToLeaf(PathFiles[i].data, p)

\* C7 amended: a path is in the key universe if and only if, in at least one
\* loaded file, it leads to a non-mapping value other than an empty array when
\* its dots are read as separators or as part of a property name; with no dot
\* in a property name, if and only if it resolves to such a value. A path
\* that leads only to mappings is not in it; an empty mapping adds no path.
C7_UniverseIsLeafBranches ==
    \A universe \in {Range(UnionKeys(PathFiles))} :
    \A p \in Paths \cup universe :
        /\ p \in universe <=>
               \E i \in 1..Len(PathFiles), ns \in Groupings(Split(p)) :
                   LeafBranch(PathFiles[i].data, ns)
        /\ (\A i \in 1..Len(PathFiles) : ~ResolvesToLeaf(PathFiles[i].data, p))
               => \/ p \notin universe
                  \/ \E i \in 1..Len(PathFiles), ns \in Groupings(Split(p)) :
                         Len(ns) < Len(Split(p)) /\ LeafBranch(PathFiles[i].data, ns)
        /\ (\E i \in 1..Len(PathFiles) : LeafBranch(PathFiles[i].data, Split(p)))
               => p \in universe

C7_Witness ==
    /\ kpOp = "set"
    /\ \E p \in Paths :
          /\ getValueByPath(kpTree, p) = EmptyObj
          /\ ~Present(kpOther, p)
          /\ p \notin Range(UnionKeys(PathFiles))
    /\ \E q \in Paths :
          /\ Len(Split(q)) = 2
          /\ ResolvesToLeaf(kpTree, q)
          /\ q \in Range(UnionKeys(PathFiles))
    /\ \E r \in Paths :
          /\ getValueByPath(kpOther, r).t = "object"
          /\ ~ResolvesToLeaf(kpTree, r)
          /\ r \notin Range(UnionKeys(PathFiles))

\* C20: create-path policy. After set(T, p, v): where a proper prefix of p
\* held a scalar, null or an array in T, it holds a mapping with the next
\* segment as its one property, and get(result, p) = v; where p itself
\* held a mapping in T, it holds v, and nothing of the old mapping.
C20_CreatePathPolicy ==
    kpOp = "set" =>
        LET segs == Split(kpPath)
            at == NodeAt(kpPrev, segs)
        IN  /\ \A i \in 1..(Len(segs) - 1) :
                   LET before == NodeAt(kpPrev, SubSeq(segs, 1, i))
                       after == NodeAt(kpTree, SubSeq(segs, 1, i))
                   IN  (before # <<>> /\ before[1].t # "object") =>
                           /\ after # <<>>
                           /\ after[1].t = "object"
                           /\ DOMAIN after[1].m = {segs[i + 1]}
                           /\ getValueByPath(kpTree, kpPath) = kpValue
            /\ (at # <<>> /\ at[1].t = "object") =>
                   NodeAt(kpTree, segs) = <<kpValue>>

C20_Witness ==
    /\ kpOp = "set"
    /\ kpSteps = 2
    /\ Len(Split(kpPath)) = 3
    /\ \E i \in 1..2 :
           /\ NodeAt(kpPrev, SubSeq(Split(kpPath), 1, i)) # <<>>
           /\ NodeAt(kpPrev, SubSeq(Split(kpPath), 1, i))[1].t = "array"
           /\ NodeAt(kpTree, SubSeq(Split(kpPath), 1, i))[1].t = "object"
    /\ getValueByPath(kpTree, kpPath) = kpValue

\* the sequences of up to three property names
NameSeqs ==
    LET names == SegNames \cup {KAB}
    IN  {<<x>> : x \in names} \cup (names \X names) \cup (names \X names \X names)

\* how often x is listed in seq
Count(seq, x) == Cardinality({i \in 1..Len(seq) : seq[i] = x})

\* the property names ns lead, in tree, to an array
ArrayBranch(tree, ns) ==
    LET n == NodeAt(tree, ns) IN n # <<>> /\ n[1].t = "array"

\* C19: an array is one atomic leaf of key discovery. For every array of the
\* tree, discovery lists no path for an element of it; it lists the path of
\* a non-empty array once, and lists no path for an empty array (beside
\* what other leaves that read as the same path add).
C19_ArrayIsAtomicLeaf ==
    LET keys == flattenObjectKeys(kpTree)
    IN  \A ns \in NameSeqs :
            ArrayBranch(kpTree, ns) =>
                LET array == NodeAt(kpTree, ns)[1].e
                    others == {ms \in Groupings(Split(Join(ns))) \ {ns} :
                                  LeafBranch(kpTree, ms)}
                IN  /\ \A i \in 1..Len(array) :
                           Join(ns \o <<IndexName(i)>>) \notin Range(keys)
                    /\ Count(keys, Join(ns)) =
                           Cardinality(others) + (IF Len(array) > 0 THEN 1 ELSE 0)

C19_Witness ==
    /\ kpOp = "set"
    /\ \E ns \in NameSeqs :
           /\ ArrayBranch(kpTree, ns)
           /\ Len(NodeAt(kpTree, ns)[1].e) = 2
           /\ Count(flattenObjectKeys(kpTree), Join(ns)) = 1
    /\ \E ms \in NameSeqs :
           /\ ArrayBranch(kpTree, ms)
           /\ NodeAt(kpTree, ms)[1].e = <<>>
           /\ Join(ms) \notin Range(flattenObjectKeys(kpTree))

(***************************************************************************)
(* Claims about the application.                                           *)
(***************************************************************************)
Loaded == projectData # NoProject

\* the orderings of a list of at most three files
Orderings(files) ==
    LET n == Len(files)
        perms == {f \in [1..n -> 1..n] : \A i, j \in 1..n : f[i] = f[j] => i = j}
    IN  {[i \in 1..n |-> files[f[i]]] : f \in perms}

\* C5: union determinism. The key universe computed from a list of files is
\* the same sequence for every ordering of the list, holds no duplicate and
\* is sorted ascending by plain string comparison; it is what the upload
\* stores as the key list.
C5_UnionDeterminism ==
    Loaded =>
        LET files == projectData.translationFiles
            universe == UnionKeys(files)
        IN  /\ \A other \in Orderings(files) : UnionKeys(other) = universe
            /\ \A i, j \in 1..Len(universe) : i < j => universe[i] # universe[j]
            /\ \A i \in 1..(Len(universe) - 1) : StrLess(universe[i], universe[i + 1])
            /\ (lastOp.op = "upload" => allKeys = universe)

C5_Witness ==
    /\ Loaded
    /\ lastOp.op = "upload"
    /\ LET files == projectData.translationFiles
       IN  /\ Len(files) = 3
           /\ \E other \in Orderings(files) :
                  CollectKeys(other, <<>>) # CollectKeys(files, <<>>)
           /\ CollectKeys(files, <<>>) # allKeys
           /\ \E k \in Range(allKeys) :
                  Cardinality({i \in 1..Len(files) :
                                   k \in Range(flattenObjectKeys(files[i].data))}) >= 2

\* C8: a single-value edit handleUpdateValueAndHistory(fileName, key, v)
\* changes the data of the files named fileName only: the data of every other
\* file, every file's name and the order of the files are unchanged.
C8_EditChangesOneFile ==
    lastOp.op \in {"applySuggestion", "valueDisplaySave"} =>
        LET before == prevProject.translationFiles
            after == projectData.translationFiles
        IN  /\ Len(after) = Len(before)
            /\ \A i \in 1..Len(before) :
                   /\ after[i].name = before[i].name
                   /\ before[i].name # lastOp.fileName => after[i].data = before[i].data

C8_Witness ==
    /\ lastOp.op = "applySuggestion"
    /\ lastOp.fileName = N_en
    /\ lastOp.key = KAB
    /\ Len(projectData.translationFiles) = 2
    /\ \E i, j \in 1..2 :
          /\ projectData.translationFiles[i].name = N_en
          /\ getValueByPath(projectData.translationFiles[i].data, KAB) = Str("y")
          /\ projectData.translationFiles[i].data # prevProject.translationFiles[i].data
          /\ projectData.translationFiles[j].name = N_pl
          /\ getValueByPath(projectData.translationFiles[j].data, KAB) = Str("x")

\* C9: the key universe never drifts. Whenever a project is loaded, the key
\* list of the application is the sorted union of the leaf paths of the
\* current translation files.
C9_KeyListIsUniverse ==
    Loaded => allKeys = UnionKeys(projectData.translationFiles)

IsSidecar(name) ==
    name \in {N_context \o JsonExt, N_history \o JsonExt, N_groups \o JsonExt}

IsTranslationFile(name) ==
    /\ ~IsSidecar(name)
    /\ name # N_reference_keys \o JsonExt
    /\ name # N_global_context_txt
    /\ EndsWith(name, JsonExt)

\* C10: malformed-file isolation. An import in which a sidecar file
\* (context.json, history.json, groups.json) is invalid JSON while every
\* translation file parses, and there is one, yields the translation files.
C10_SidecarIsolation ==
    (lastOp.op = "upload" /\ (lastOp.batch.zip => lastOp.batch.zipOk)) =>
        LET files == FilesToProcess(lastOp.batch)
            valid == {i \in 1..Len(files) :
                         IsTranslationFile(files[i].name) /\ files[i].text.json # <<>>}
            broken == {i \in 1..Len(files) :
                          IsTranslationFile(files[i].name) /\ files[i].text.json = <<>>}
            badSidecars == {i \in 1..Len(files) :
                               IsSidecar(files[i].name) /\ files[i].text.json = <<>>}
        IN  (badSidecars # {} /\ valid # {} /\ broken = {}) =>
                /\ Len(projectData.translationFiles) = Cardinality(valid)
                /\ \A i \in valid :
                       \E j \in 1..Len(projectData.translationFiles) :
                           projectData.translationFiles[j].data = files[i].text.json[1]

\* the project that handleFilesUpload makes of the empty default result
EmptyProject ==
    /\ projectData.translationFiles = <<>>
    /\ projectData.contexts = EmptyObj
    /\ projectData.translationHistory = EmptyMap
    /\ projectData.translationGroups = <<>>

\* C11: an import batch with no file that parses as a translation file is
\* aborted: the uploader sets an error message and hands over the empty
\* default result (no files, contexts, history or groups).
C11_NoTranslationFileAborts ==
    lastOp.op = "upload" =>
        LET files == IF lastOp.batch.zip /\ ~lastOp.batch.zipOk THEN <<>>
                     ELSE FilesToProcess(lastOp.batch)
        IN  (\A i \in 1..Len(files) :
                 ~(IsTranslationFile(files[i].name) /\ files[i].text.json # <<>>))
                => uploadError # NoError /\ EmptyProject

C11_Witness ==
    /\ lastOp.op = "upload"
    /\ ~lastOp.batch.zip
    /\ \E i \in 1..Len(lastOp.batch.files) :
           IsSidecar(lastOp.batch.files[i].name) /\ lastOp.batch.files[i].text.json # <<>>
    /\ \A i \in 1..Len(lastOp.batch.files) : ~IsTranslationFile(lastOp.batch.files[i].name)
    /\ uploadError = NoTranslationFileError
    /\ EmptyProject

(***************************************************************************)
(* Claims about the calls to the LLM service.                              *)
(***************************************************************************)
\* the keys for which the bulk view holds a suggestion
Suggested == IF llmComp.result.t = "suggestions" THEN DOMAIN llmComp.result.m ELSE {}

RECURSIVE KeysUpTo(_)
KeysUpTo(c) == IF c = 0 THEN 0 ELSE KeysUpTo(c - 1) + Len(llmTasks[c].keys)

\* C21: bulkTranslateKeys works chunk by chunk. The chunks hold the keys in
\* input order, each at most CHUNK_SIZE keys and every key in exactly one
\* chunk; the request of a chunk is issued only when the request of the
\* chunk before it has settled and its progress was reported, so one
\* request at most is in flight; and when the loop has ended after the last
\* chunk, the progress reported has current equal to total.
C21_ChunksOneAfterAnother ==
    (llmHandler = "bulkSuggest" /\ llmTasks # <<>>) =>
        /\ \A c \in 1..Len(llmTasks) :
               /\ Len(llmTasks[c].keys) \in 1..CHUNK_SIZE
               /\ \A n \in 1..Len(llmTasks[c].keys) :
                      llmTasks[c].keys[n] = KeysUpTo(c - 1) + n
        /\ KeysUpTo(Len(llmTasks)) = llmProgress.total
        /\ \A c \in 2..Len(llmTasks) :
               llmStatus[c] # "notIssued" =>
                   /\ llmStatus[c - 1] \in Outcomes
                   /\ llmProgress.current >= KeysUpTo(c - 1)
        /\ Cardinality({c \in 1..Len(llmTasks) : llmStatus[c] = "pending"}) <= 1
        /\ (llmPhase = "done" /\ llmStatus[Len(llmTasks)] \in Outcomes \ {"quota"}) =>
               llmProgress.current = llmProgress.total

C21_Witness ==
    /\ llmHandler = "bulkSuggest"
    /\ llmPhase = "done"
    /\ Len(llmTasks) = 3
    /\ llmStatus = <<"ok", "apiKey", "ok">>
    /\ llmProgress = [current |-> 24, total |-> 24]


FailedTasks == {i \in 1..Len(llmStatus) : llmStatus[i] \in Failures}
AnsweredTasks == {i \in 1..Len(llmStatus) : llmStatus[i] = "ok"}

\* C13: fan-out independence. When the requests of a group analysis have all
\* settled, every one of them settled on its own (none was cancelled), and
\* the result map has one entry for every key of the group: the result and
\* no error for a key that succeeded, the error message and no result for a
\* key that failed.
C13_GroupFanOut ==
    (llmHandler = "analyzeGroup" /\ llmPhase = "done" /\ llmTasks # <<>>) =>
        /\ ~llmComp.isLoading
        /\ llmComp.result.t = "analysisData"
        /\ DOMAIN llmComp.result.m = {llmTasks[i].key : i \in 1..Len(llmTasks)}
        /\ \A i \in 1..Len(llmTasks) :
               LET entry == llmComp.result.m[llmTasks[i].key]
               IN  /\ llmStatus[i] \in Outcomes
                   /\ llmStatus[i] = "ok" =>
                          /\ entry.result = [t |-> "analysis", key |-> llmTasks[i].key]
                          /\ entry.error = NoMessage
                   /\ llmStatus[i] \in Failures =>
                          /\ entry.result = NoResult
                          /\ entry.error # NoMessage

C13_Witness ==
    /\ llmHandler = "analyzeGroup"
    /\ llmPhase = "done"
    /\ Len(llmTasks) = 3
    /\ Cardinality(FailedTasks) = 1
    /\ Cardinality(AnsweredTasks) = 2
    /\ Cardinality(DOMAIN llmComp.result.m) = 3

\* C14: every failure of an LLM call is caught by the handler that issued
\* it: no handler ends with an error that escaped it, and a handler that
\* ended after a failed call is no longer loading and shows an error text
\* (per key, in the group view) and no result for the call.
C14_FailuresAreCaught ==
    /\ llmPhase # "escaped"
    /\ (llmPhase = "done" /\ llmHandler \in {"analyze", "suggestContext"}
            /\ FailedTasks # {}) =>
           ~llmComp.isLoading /\ llmComp.error # NoMessage /\ llmComp.result = NoResult
    /\ (llmPhase = "done" /\ llmHandler = "analyzeGroup") =>
           /\ ~llmComp.isLoading
           /\ \A i \in FailedTasks : llmComp.result.m[llmTasks[i].key].error # NoMessage

\* C23: a run that set the loading flag clears it. Once a click has been
\* made and none of its requests is pending any more, whether they
\* succeeded, failed or threw, the flag of the view is false again.
C23_LoadingIsCleared ==
    (llmHandler # "none" /\ \A i \in 1..Len(llmStatus) : llmStatus[i] # "pending") =>
        ~llmComp.isLoading

\* a step in which a request that was pending settles as a failure
FailureStep ==
    /\ llmPhase = "running"
    /\ llmTasks' = llmTasks
    /\ \E i \in 1..Len(llmStatus) : llmStatus[i] = "pending" /\ llmStatus'[i] \in Failures

\* C15: a failed LLM call never corrupts applied edits. The step in which a
\* request fails and its handler deals with the failure changes no
\* translation file and no history entry.
C15_FailureKeepsEdits ==
    [][FailureStep =>
          /\ projectData'.translationFiles = projectData.translationFiles
          /\ projectData'.translationHistory = projectData.translationHistory]_vars

C15_Witness ==
    /\ llmPhase = "done"
    /\ llmHandler = "analyze"
    /\ FailedTasks # {}
    /\ llmComp.error # NoMessage
    /\ lastOp.op = "applySuggestion"
    /\ getValueByPath(projectData.translationFiles[
                          CHOOSE i \in 1..Len(projectData.translationFiles) :
                              projectData.translationFiles[i].name = lastOp.fileName].data,
                      lastOp.key) = lastOp.value
    /\ lastOp.key \in DOMAIN projectData.translationHistory

\* C16: no automatic retry. Within one click no request (a chunk of a bulk
\* translation, a key of a group analysis, a key and language of a bulk
\* analysis, the request of a card) is issued more than once, whether it
\* succeeded or failed.
C16_NoRetry ==
    \A i \in 1..Len(llmIssued) : llmIssued[i] <= 1

C16_Witness ==
    /\ llmHandler = "bulkSuggest"
    /\ llmPhase = "done"
    /\ Len(llmTasks) = 3
    /\ llmStatus[1] = "other"
    /\ llmStatus[2] = "ok"
    /\ llmStatus[3] = "apiKey"
    /\ \A i \in 1..3 : llmIssued[i] = 1
    /\ Suggested = Range(llmTasks[2].keys)

\* C22: context import. After an import with a context.json that maps key
\* paths to texts, the context the views read for each of its key paths,
\* getValueByPath(contexts, p), is the text the file gives for p.
C22_ImportedContextIsRead ==
    (lastOp.op = "upload" /\ uploadError = NoError) =>
        \A i \in 1..Len(lastOp.batch.files) :
            LET file == FilesToProcess(lastOp.batch)[i]
            IN  (file.name = N_context \o JsonExt /\ file.text.json # <<>>) =>
                    \A path \in DOMAIN file.text.json[1].m :
                        getValueByPath(projectData.contexts, path) = file.text.json[1].m[path]

\* C24: a failed import creates no project. After an import that ended in
\* an error, no project is loaded and the storage holds no snapshot.
C24_FailedImportCreatesNoProject ==
    (lastOp.op = "upload" /\ uploadError # NoError) =>
        /\ projectData = NoProject
        /\ storage = NoItem

\* one key path is a proper dotted prefix of the other
PrefixPair(k1, k2) ==
    LET IsPrefix(s, t) == Len(s) < Len(t) /\ SubSeq(t, 1, Len(s)) = s
    IN  IsPrefix(Split(k1), Split(k2)) \/ IsPrefix(Split(k2), Split(k1))

\* C25 as stated: after a bulk save, every edited key of the language reads
\* back its edited value from every file of the language and from the
\* history, for any edited keys of the key universe; the files of the other
\* languages keep their data.
C25_BulkSaveReadBack ==
    lastOp.op = "saveBulk" =>
        LET before == prevProject.translationFiles
            after == projectData.translationFiles
        IN  \A i \in 1..Len(after) :
                IF after[i].name = lastOp.lang
                THEN \A j \in 1..Len(lastOp.entries) :
                         LET e == lastOp.entries[j]
                         IN  /\ getValueByPath(after[i].data, e.key) = e.value
                             /\ projectData.translationHistory[e.key][lastOp.lang] = e.value
                ELSE after[i].data = before[i].data

\* C25 (amended): after a bulk save, every edited key of the language reads
\* back its edited value from the history, and from every file of the
\* language unless a key edited after it is a dotted prefix of it or has it
\* as a dotted prefix (the later write of such a pair wins); a file of
\* another language ends with the data that the last file of its name had,
\* which is its own data when no later file shares its name.
C25_BulkSaveReadBackNoPrefix ==
    lastOp.op = "saveBulk" =>
        LET before == prevProject.translationFiles
            after == projectData.translationFiles
            es == lastOp.entries
        IN  /\ \A j \in 1..Len(es) :
                   /\ es[j].key \in DOMAIN projectData.translationHistory
                   /\ lastOp.lang \in DOMAIN projectData.translationHistory[es[j].key]
                   /\ projectData.translationHistory[es[j].key][lastOp.lang] = es[j].value
            /\ \A i \in 1..Len(after) :
                   IF after[i].name = lastOp.lang
                   THEN \A j \in 1..Len(es) :
                            (\A m \in (j + 1)..Len(es) : ~PrefixPair(es[j].key, es[m].key)) =>
                                getValueByPath(after[i].data, es[j].key) = es[j].value
                   ELSE /\ after[i].data = LangFileMap(before)[after[i].name]
                        /\ (\A m \in (i + 1)..Len(before) : before[m].name # before[i].name)
                               => after[i].data = before[i].data

C25_Witness ==
    /\ lastOp.op = "saveBulk"
    /\ lastOp.lang = N_en
    /\ Len(lastOp.entries) = 2
    /\ lastOp.entries[1].key = KA
    /\ lastOp.entries[2].key = KAB
    /\ Len(projectData.translationFiles) = 2
    /\ \E i, j \in 1..2 :
          /\ projectData.translationFiles[i].name = N_en
          /\ getValueByPath(projectData.translationFiles[i].data, KAB) = Str("z")
          /\ getValueByPath(projectData.translationFiles[i].data, KA) # Str("y")
          /\ projectData.translationFiles[j].name = N_pl
          /\ projectData.translationFiles[j].data = prevProject.translationFiles[j].data
    /\ projectData.translationHistory[KA][N_en] = Str("y")
    /\ projectData.translationHistory[KAB][N_en] = Str("z")

\* C18: file names are unique within a project. In every state with a
\* project, right after an import of loose files or of a ZIP archive too, no
\* two translation files have the same name.
C18_FileNamesUnique ==
    projectData # NoProject =>
        \A i, j \in 1..Len(projectData.translationFiles) :
            projectData.translationFiles[i].name = projectData.translationFiles[j].name
                => i = j

\* C29: the suggestions that the bulk view shows belong to the selected
\* language: each was generated by a request for the language that is
\* selected now, also when the language was changed while the request was in
\* flight.
C29_SuggestionsOfSelectedLang ==
    (llmHandler = "bulkSuggest" /\ llmComp.result.t = "suggestions") =>
        \A key \in DOMAIN llmComp.result.m : llmComp.result.m[key] = selectedLang

\* C30: one reference language for a project. For the files of any loaded
\* project, the finder of the key list, of the card, of the group view and
\* of the group form (a name that includes pl or polish) and the finder of
\* the bulk view and of the analysis service (a name that is pl or polish)
\* name the same file as the Polish source, or all name none.
C30_OneReferenceLanguage ==
    projectData # NoProject =>
        polishFileIncludes(projectData.translationFiles) =
            polishFileExact(projectData.translationFiles)

(***************************************************************************)
(* Claims about the groups.                                                *)
(***************************************************************************)
\* C26: the reference keys of the group form are always among its selected
\* keys, after any sequence of clicks on the checkbox of a key, on the star
\* of a key and on the checkbox of the table header, and no group of the
\* project has a reference key that is not one of its keys.
C26_ReferencesAreSelected ==
    /\ formState # NoForm =>
           Range(formState.referenceKeys) \subseteq Range(formState.selectedKeys)
    /\ projectData # NoProject =>
           \A i \in 1..Len(projectData.translationGroups) :
               Range(projectData.translationGroups[i].referenceKeys) \subseteq
                   Range(projectData.translationGroups[i].keys)

\* C27: saving the form in edit mode changes only the group whose data the
\* form was loaded with: every other group of the project is what it was,
\* also when another group was chosen for editing or a group was deleted in
\* the sidebar while the form was open.
C27_SaveChangesLoadedGroup ==
    (lastOp.op = "saveGroup" /\ lastOp.mode = "edit") =>
        LET before == prevProject.translationGroups
            after == projectData.translationGroups
        IN  /\ Len(after) = Len(before)
            /\ \A i \in 1..Len(before) :
                   after[i] # before[i] => before[i].id = lastOp.loaded

\* C28: whenever a project is loaded and groupMode is 'list', selectedGroupId
\* is the id of a group of the project if the project has a group, and null
\* if it has none.
C28_SelectedGroupExists ==
    (projectData # NoProject /\ groupMode = "list") =>
        IF Len(projectData.translationGroups) > 0
        THEN selectedGroupId \in GroupIds
        ELSE selectedGroupId = NullId

\* the effect has put the first group in the place of a selection that was
\* deleted or given up for a new group
C28_Witness ==
    /\ projectData # NoProject
    /\ groupMode = "list"
    /\ activeView = "keys"
    /\ lastOp.op = "deleteGroup"
    /\ lastOp.id = "g1"
    /\ Len(projectData.translationGroups) = 1
    /\ selectedGroupId = "g0"

(***************************************************************************)
(* Claims about the stored session.                                        *)
(***************************************************************************)
\* C17: session snapshot round trip. While a project is loaded, the item of
\* the storage parses to the whole current project (files, contexts,
\* history, groups, global context); after a reload the session holds that
\* project as the one to continue, and after Continue Session the project in
\* memory is exactly the project of the last mutation before the reload.
C17_SnapshotRoundTrip ==
    /\ projectData # NoProject =>
           storage # NoItem /\ JSONparse(storage) = projectData
    /\ (lastOp.op = "reload" /\ storage # NoItem) =>
           initialDataFromStorage = prevProject
    /\ lastOp.op = "continue" => projectData = prevProject

(***************************************************************************)
(* Claims about references.                                                *)
(***************************************************************************)
\* C4: set never mutates its input. After a set, every node that existed
\* before holds the properties it held, so every earlier holder of a tree
\* (the previous project state, a pending edit) reads from its root what it
\* read before; and the new root reads as the written tree.
C4_SetLeavesInputUnchanged ==
    /\ \A a \in 1..Len(refPrevHeap) : refHeap[a] = refPrevHeap[a]
    /\ \A h \in refHeld : Read(refHeap, h.root) = h.value
    /\ refOp.op = "updateValue" =>
           Read(refHeap, refRoot) =
               setValueByPath(Read(refPrevHeap, refOp.from), refOp.path, refOp.value)

C4_Witness ==
    /\ refOp.op = "updateValue"
    /\ Len(Split(refOp.path)) = 3
    /\ Read(refPrevHeap, refOp.from) # Read(refHeap, refRoot)
    /\ ResolvesToLeaf(Read(refPrevHeap, refOp.from), refOp.path)
    /\ Cardinality(refHeld) = 2
    /\ \E a \in 1..Len(refPrevHeap) : \E k \in DOMAIN refHeap[refRoot.a] :
           refHeap[refRoot.a][k] = Ref(a)

====
